---- MODULE Spec2Model ----
(***************************************************************************)
(* A model of qpanel's reconciliation engine: rule application, tagging,  *)
(* cross-seed pause, path translation, orphan detection and grouping,      *)
(* torrent pagination and the parsing of the client log (scheduler.py,     *)
(* cross_seed_checker.py, log_parser.py, app.py, qbt_client.py of src/app).*)
(*                                                                         *)
(* Python strings are sequences of one-character strings, so that split,   *)
(* strip, substring and prefix tests are computed and not assumed.         *)
(* Optional values (None) are the empty set, a present value v is {v}.     *)
(***************************************************************************)
EXTENDS Integers, Sequences, FiniteSets, TLC

VARIABLES
    instances,      \* Instance rows, in query order (each with its ordered rules)
    remote,         \* instance id -> the torrents its qBittorrent holds, in listing order
    calls,          \* every mutating remote call issued so far, in order
    session,        \* ActionLog rows added to the db session and not yet committed
    committed,      \* ActionLog rows committed
    runs,           \* completed runs of apply_rules_job
    runLog,         \* per completed run: what it raised and where calls/committed stood
    pgBackend,      \* get_all_torrents: the list the backend holds
    pgOut,          \* get_all_torrents: the outcome of the last call (None before it)
    links,          \* the local filesystem's symbolic links: path -> target
    pInst,          \* _map_qbt_path_to_local: the instance argument
    pPath,          \* _map_qbt_path_to_local: the qbt_path argument (None: not a string)
    pOut,           \* _map_qbt_path_to_local: the outcome of the call (None before it)
    files,          \* the local filesystem's regular files: path -> stat fields
    now,            \* datetime.now().timestamp(), in seconds
    sArgs,          \* _find_orphaned_files: the arguments (None outside its runs)
    sOut,           \* _find_orphaned_files: the inodes collected and the list returned
    settings,       \* load_settings(): the orphan scan's settings
    sent,           \* the messages send_notification has delivered, in order
    oLog,           \* detect_orphaned_files_job: what its last run built and found
    gIn,            \* group_orphaned_files_by_directory: the OrphanedFile rows given
    gOut,           \* group_orphaned_files_by_directory: the result (None before it)
    notified,       \* the calls of send_notification by the tagging and pause jobs
    sched,          \* the BackgroundScheduler: its clock, its job store and its executor
    cIn,            \* _collect_expected_local_paths: the arguments and the client's answers
    cOut,           \* _collect_expected_local_paths: the set returned (None before the call)
    mIn,            \* the rule and the torrent one pass of the inner loop of apply_rules tests
    mOut,           \* "matched" at line 48 of that pass (None before it)
    clientLog,      \* instance id -> the main log of its qBittorrent, in id order
    pending         \* the jobs the cycle under way has yet to run

rulesVars == <<instances, remote, calls, session, committed, runs, runLog>>
pageVars == <<pgBackend, pgOut>>
pathVars == <<links, pInst, pPath, pOut>>
scanVars == <<files, now, sArgs, sOut>>
orphanVars == <<settings, sent, oLog>>
groupVars == <<gIn, gOut>>
tagVars == <<notified>>
schedVars == <<sched>>
collectVars == <<cIn, cOut>>
matchVars == <<mIn, mOut>>
logVars == <<clientLog>>
cycleVars == <<pending>>
vars == <<rulesVars, pageVars, pathVars, scanVars, orphanVars, groupVars, tagVars, schedVars,
          collectVars, matchVars, logVars, cycleVars>>

----------------------------------------------------------------------------
(* Bounds of the model *)

MaxRules == 2       \* rules assigned to the instance
MaxTorrents == 2    \* torrents the instance holds
MaxRuns == 2        \* runs of apply_rules_job
MaxBackend == 3400  \* torrents of the paginated backend
MaxDays == 1        \* orphaned_min_age_days, and the age of a file in days
MaxOrphans == 3     \* OrphanedFile rows given to the grouping

(* Program constants *)

PageLimit == 1000
InheritSentinel == -2
KiB == 1024

----------------------------------------------------------------------------
(* Optional values *)

None == {}
Some(v) == {v}
Val(o) == CHOOSE v \in o : TRUE

Min(a, b) == IF a <= b THEN a ELSE b
Max(a, b) == IF a >= b THEN a ELSE b

----------------------------------------------------------------------------
(* The parts of the state a specification does not use stay as they are here *)

RulesIdle ==
    /\ instances = <<>>
    /\ remote = <<>>
    /\ calls = <<>>
    /\ session = <<>>
    /\ committed = <<>>
    /\ runs = 0
    /\ runLog = <<>>

PageIdle ==
    /\ pgBackend = <<>>
    /\ pgOut = None

PathIdle ==
    /\ links = <<>>
    /\ pInst = None
    /\ pPath = None
    /\ pOut = None

ScanIdle ==
    /\ files = <<>>
    /\ now = 0
    /\ sArgs = None
    /\ sOut = None

OrphanIdle ==
    /\ settings = None
    /\ sent = <<>>
    /\ oLog = None

GroupIdle ==
    /\ gIn = <<>>
    /\ gOut = None

TagIdle == notified = <<>>

SchedIdle == sched = None

CollectIdle == cIn = None /\ cOut = None

MatchIdle == mIn = None /\ mOut = None

LogIdle == clientLog = <<>>

CycleIdle == pending = {}

----------------------------------------------------------------------------
(* Python string operations *)

Whitespace == {" "}

\* str.split(sep): the pieces between separators, empty pieces included
RECURSIVE Split(_, _)
Split(s, sep) ==
    IF \A i \in 1..Len(s) : s[i] # sep
    THEN <<s>>
    ELSE LET i == CHOOSE k \in 1..Len(s) :
                      s[k] = sep /\ \A j \in 1..(k - 1) : s[j] # sep
         IN <<SubSeq(s, 1, i - 1)>> \o Split(SubSeq(s, i + 1, Len(s)), sep)

RECURSIVE LStrip(_)
LStrip(s) == IF s # <<>> /\ s[1] \in Whitespace THEN LStrip(Tail(s)) ELSE s

RECURSIVE RStrip(_)
RStrip(s) ==
    IF s # <<>> /\ s[Len(s)] \in Whitespace
    THEN RStrip(SubSeq(s, 1, Len(s) - 1))
    ELSE s

\* str.strip()
Strip(s) == RStrip(LStrip(s))

\* str.startswith(prefix)
StartsWith(s, prefix) ==
    Len(prefix) <= Len(s) /\ SubSeq(s, 1, Len(prefix)) = prefix

\* sub in s, for strings
Contains(s, sub) ==
    \E i \in 0..(Len(s) - Len(sub)) : SubSeq(s, i + 1, i + Len(sub)) = sub

\* [v.strip() for v in s.split(',') if v.strip()]
RECURSIVE StrippedNonEmpty(_)
StrippedNonEmpty(pieces) ==
    IF pieces = <<>> THEN <<>>
    ELSE LET v == Strip(Head(pieces)) IN
         (IF v # <<>> THEN <<v>> ELSE <<>>) \o StrippedNonEmpty(Tail(pieces))

CommaList(s) == StrippedNonEmpty(Split(s, ","))

Range(f) == {f[i] : i \in DOMAIN f}

----------------------------------------------------------------------------
(* posixpath, as scheduler.py uses it.  The process's working directory is Cwd, *)
(* a directory no symbolic link leads through.                                  *)

Sep == "/"
Dot == <<".">>
DotDot == <<".", ".">>
Cwd == <<"/", "w">>
Nul == "NUL"      \* the character chr(0)

IsAbs(p) == p # <<>> /\ p[1] = Sep

\* os.path.join(a, b)
Join2(a, b) ==
    IF IsAbs(b) THEN b
    ELSE IF a = <<>> \/ a[Len(a)] = Sep THEN a \o b
    ELSE a \o <<Sep>> \o b

\* '/'.join(comps)
RECURSIVE JoinSep(_)
JoinSep(comps) ==
    IF comps = <<>> THEN <<>>
    ELSE IF Len(comps) = 1 THEN comps[1]
    ELSE comps[1] \o <<Sep>> \o JoinSep(Tail(comps))

\* [c for c in comps if c]
RECURSIVE NonEmpty(_)
NonEmpty(comps) ==
    IF comps = <<>> THEN <<>>
    ELSE (IF Head(comps) # <<>> THEN <<Head(comps)>> ELSE <<>>) \o NonEmpty(Tail(comps))

\* the loop of posixpath.normpath over the components
RECURSIVE NormComps(_, _, _)
NormComps(comps, initial, acc) ==
    IF comps = <<>> THEN acc
    ELSE IF Head(comps) = <<>> \/ Head(comps) = Dot
    THEN NormComps(Tail(comps), initial, acc)
    ELSE IF \/ Head(comps) # DotDot
            \/ (initial = 0 /\ acc = <<>>)
            \/ (acc # <<>> /\ acc[Len(acc)] = DotDot)
    THEN NormComps(Tail(comps), initial, Append(acc, Head(comps)))
    ELSE IF acc # <<>>
    THEN NormComps(Tail(comps), initial, SubSeq(acc, 1, Len(acc) - 1))
    ELSE NormComps(Tail(comps), initial, acc)

InitialSlashes(path) ==
    IF ~StartsWith(path, <<Sep>>) THEN 0
    ELSE IF StartsWith(path, <<Sep, Sep>>) /\ ~StartsWith(path, <<Sep, Sep, Sep>>) THEN 2
    ELSE 1

OrDot(path) == IF path = <<>> THEN Dot ELSE path

\* os.path.normpath
NormPath(path) ==
    IF path = <<>> THEN Dot
    ELSE OrDot([i \in 1..InitialSlashes(path) |-> Sep]
               \o JoinSep(NormComps(Split(path, Sep), InitialSlashes(path), <<>>)))

\* os.path.abspath
AbsPath(path) == NormPath(IF IsAbs(path) THEN path ELSE Join2(Cwd, path))

\* str.rstrip('/')
RECURSIVE RStripSep(_)
RStripSep(s) ==
    IF s # <<>> /\ s[Len(s)] = Sep THEN RStripSep(SubSeq(s, 1, Len(s) - 1)) ELSE s

LastSep(p) ==
    IF \E i \in DOMAIN p : p[i] = Sep
    THEN CHOOSE i \in DOMAIN p : p[i] = Sep /\ \A j \in (i + 1)..Len(p) : p[j] # Sep
    ELSE 0

SplitHead(head) ==
    IF head # <<>> /\ \E i \in DOMAIN head : head[i] # Sep THEN RStripSep(head) ELSE head

\* os.path.split
SplitPath(p) ==
    [head |-> SplitHead(SubSeq(p, 1, LastSep(p))), tail |-> SubSeq(p, LastSep(p) + 1, Len(p))]

\* rest.partition('/')
Partition(rest) ==
    IF \E i \in DOMAIN rest : rest[i] = Sep
    THEN LET i == CHOOSE k \in DOMAIN rest :
                      rest[k] = Sep /\ \A j \in 1..(k - 1) : rest[j] # Sep
         IN [name |-> SubSeq(rest, 1, i - 1), rest |-> SubSeq(rest, i + 1, Len(rest))]
    ELSE [name |-> rest, rest |-> <<>>]

\* _joinrealpath, name == pardir
ParentOf(path) ==
    IF path = <<>> THEN DotDot
    ELSE IF SplitPath(path).tail = DotDot
    THEN Join2(Join2(SplitPath(path).head, DotDot), DotDot)
    ELSE SplitPath(path).head

\* os.lstat(newpath) says a symbolic link
IsLink(lk, newpath) == AbsPath(newpath) \in DOMAIN lk

\* posixpath._joinrealpath; depth bounds the nesting of link expansions (a link
\* met deeper than that, which only a cycle of links does, is left unresolved)
RECURSIVE JoinRealPath(_, _, _, _)
RECURSIVE WalkRest(_, _, _, _)
WalkStep(lk, path, part, depth) ==
    IF part.name = <<>> \/ part.name = Dot
    THEN WalkRest(lk, path, part.rest, depth)
    ELSE IF part.name = DotDot
    THEN WalkRest(lk, ParentOf(path), part.rest, depth)
    ELSE IF ~IsLink(lk, Join2(path, part.name)) \/ depth = 0
    THEN WalkRest(lk, Join2(path, part.name), part.rest, depth)
    ELSE WalkRest(lk, JoinRealPath(lk, path, lk[AbsPath(Join2(path, part.name))],
                                   depth - 1),
                  part.rest, depth)

WalkRest(lk, path, rest, depth) ==
    IF rest = <<>> THEN path ELSE WalkStep(lk, path, Partition(rest), depth)

JoinRealPath(lk, path, rest, depth) ==
    IF IsAbs(rest) THEN WalkRest(lk, <<Sep>>, Tail(rest), depth)
    ELSE WalkRest(lk, path, rest, depth)

\* os.path.realpath
RealPath(lk, path) == AbsPath(JoinRealPath(lk, <<>>, path, Cardinality(DOMAIN lk)))

\* os.path.realpath(os.path.normpath(p))
Canon(lk, p) == RealPath(lk, NormPath(p))

\* the components commonpath and relpath compare
Comps(p) == LET cs == NonEmpty(Split(p, Sep)) IN
            SelectSeq(cs, LAMBDA c : c # Dot)

\* os.path.commonprefix of two component lists
RECURSIVE CommonPrefix(_, _)
CommonPrefix(a, b) ==
    IF a = <<>> \/ b = <<>> \/ Head(a) # Head(b) THEN <<>>
    ELSE <<Head(a)>> \o CommonPrefix(Tail(a), Tail(b))

\* os.path.commonpath([a, b]): raises ValueError on an absolute and a relative path
CommonPathRaises(a, b) == IsAbs(a) # IsAbs(b)
CommonPath(a, b) ==
    (IF IsAbs(a) THEN <<Sep>> ELSE <<>>) \o JoinSep(CommonPrefix(Comps(a), Comps(b)))

\* os.path.relpath(path, start): raises ValueError on an empty path
RelPathRaises(path) == path = <<>>
RelList(pl, sl, n) == [i \in 1..(Len(sl) - n) |-> DotDot] \o SubSeq(pl, n + 1, Len(pl))
RelPath(path, start) ==
    LET pl == NonEmpty(Split(AbsPath(path), Sep))
        sl == NonEmpty(Split(AbsPath(start), Sep))
    IN OrDot(JoinSep(RelList(pl, sl, Len(CommonPrefix(sl, pl)))))

----------------------------------------------------------------------------
(* The order of Python strings: by code point, then by length *)

Ascii ==
    << "NUL", " ", "(", ")", ",", "-", ".", "/",
       "0", "1", "2", "3", "4", "5", "6", "7", "8", "9",
       "A", "B", "C", "D", "E", "F", "G", "H", "I", "J", "K", "L", "M",
       "N", "O", "P", "Q", "R", "S", "T", "U", "V", "W", "X", "Y", "Z", "_",
       "a", "b", "c", "d", "e", "f", "g", "h", "i", "j", "k", "l", "m",
       "n", "o", "p", "q", "r", "s", "t", "u", "v", "w", "x", "y", "z" >>

Ord(c) == CHOOSE i \in DOMAIN Ascii : Ascii[i] = c

\* a < b, for strings
RECURSIVE StrLess(_, _)
StrLess(a, b) ==
    IF b = <<>> THEN FALSE
    ELSE IF a = <<>> THEN TRUE
    ELSE IF Head(a) # Head(b) THEN Ord(Head(a)) < Ord(Head(b))
    ELSE StrLess(Tail(a), Tail(b))

\* sorted(S), for a set of strings
RECURSIVE SortedStrings(_)
SortedStrings(S) ==
    IF S = {} THEN <<>>
    ELSE LET m == CHOOSE x \in S : \A y \in S \ {x} : StrLess(x, y)
         IN <<m>> \o SortedStrings(S \ {m})

----------------------------------------------------------------------------
(* The local filesystem.  files maps the canonical path of every regular file *)
(* to [st_dev, st_ino, st_mtime, access]; access is "ok", "denied" (os.stat   *)
(* raises PermissionError) or "vanishing" (the file is there when inodes are  *)
(* collected and when the walk lists it, and gone when the scan stats it).    *)
(* The directories are the ancestors of the files and of the links.           *)

FileNotFoundError == [error |-> "FileNotFoundError"]
PermissionError == [error |-> "PermissionError"]

\* os.stat(path); scanning says the call is the scan's, after the walk's listing
Stat(fl, lk, path, scanning) ==
    LET p == RealPath(lk, path) IN
    IF p \notin DOMAIN fl THEN FileNotFoundError
    ELSE IF fl[p].access = "denied" THEN PermissionError
    ELSE IF fl[p].access = "vanishing" /\ scanning THEN FileNotFoundError
    ELSE [error |-> "", st_dev |-> fl[p].st_dev, st_ino |-> fl[p].st_ino,
          st_mtime |-> fl[p].st_mtime]

RECURSIVE Ancestors(_)
Ancestors(p) ==
    IF SplitPath(p).head = p \/ SplitPath(p).head = <<>> THEN {}
    ELSE {SplitPath(p).head} \cup Ancestors(SplitPath(p).head)

Dirs(fl, lk) == UNION {Ancestors(e) : e \in DOMAIN fl \cup DOMAIN lk}

\* os.path.isdir(path): follows symbolic links
IsDir(fl, lk, path) == RealPath(lk, path) \in Dirs(fl, lk)

\* the filenames os.walk yields for dirpath: the regular files and the links
\* that do not lead to a directory
FileNames(fl, lk, dirpath) ==
    {e \in DOMAIN fl \cup DOMAIN lk :
        /\ SplitPath(e).head = dirpath
        /\ e \in DOMAIN lk => ~IsDir(fl, lk, e)}

\* the dirnames os.walk descends into: links to directories are not followed
SubDirs(fl, lk, dirpath) == {d \in Dirs(fl, lk) : d # dirpath /\ SplitPath(d).head = dirpath}

\* os.walk(top), as the sequence of os.path.join(dirpath, filename); the model
\* lists every directory in sorted order
RECURSIVE Walk(_, _, _)
RECURSIVE WalkDirs(_, _, _)
Walk(fl, lk, dirpath) ==
    SortedStrings(FileNames(fl, lk, dirpath))
    \o WalkDirs(fl, lk, SortedStrings(SubDirs(fl, lk, dirpath)))
WalkDirs(fl, lk, dirs) ==
    IF dirs = <<>> THEN <<>>
    ELSE Walk(fl, lk, Head(dirs)) \o WalkDirs(fl, lk, Tail(dirs))

----------------------------------------------------------------------------
(* qbt_client.get_all_torrents *)

\* client.torrents_info(limit, offset) of a backend that honours both
TorrentsInfo(backend, limit, offset) ==
    SubSeq(backend, offset + 1, Min(offset + limit, Len(backend)))

\* PageLoop without the test of line 60: only an empty page ends it
RECURSIVE PageLoopUntilEmpty(_, _, _, _, _)
PageLoopUntilEmpty(backend, all, offset, reqNo, failAt) ==
    IF reqNo = failAt
    THEN [raised |-> TRUE, result |-> all, requests |-> reqNo]
    ELSE LET batch == TorrentsInfo(backend, PageLimit, offset) IN
         IF batch = <<>>
         THEN [raised |-> FALSE, result |-> all, requests |-> reqNo]
         ELSE PageLoopUntilEmpty(backend, all \o batch, offset + PageLimit,
                                 reqNo + 1, failAt)

\* PageLoop taking a full page for the last one (<= for < in line 60)
RECURSIVE PageLoopFullIsLast(_, _, _, _, _)
PageLoopFullIsLast(backend, all, offset, reqNo, failAt) ==
    IF reqNo = failAt
    THEN [raised |-> TRUE, result |-> all, requests |-> reqNo]
    ELSE LET batch == TorrentsInfo(backend, PageLimit, offset) IN
         IF batch = <<>>
         THEN [raised |-> FALSE, result |-> all, requests |-> reqNo]
         ELSE IF Len(batch) <= PageLimit
         THEN [raised |-> FALSE, result |-> all \o batch, requests |-> reqNo]
         ELSE PageLoopFullIsLast(backend, all \o batch, offset + PageLimit,
                                 reqNo + 1, failAt)

\* the while loop; request number failAt raises (0: none does)
RECURSIVE PageLoop(_, _, _, _, _)
PageLoop(backend, all, offset, reqNo, failAt) ==
    IF reqNo = failAt
    THEN [raised |-> TRUE, result |-> all, requests |-> reqNo]
    ELSE LET batch == TorrentsInfo(backend, PageLimit, offset) IN
         IF batch = <<>>
         THEN [raised |-> FALSE, result |-> all, requests |-> reqNo]
         ELSE IF Len(batch) < PageLimit
         THEN [raised |-> FALSE, result |-> all \o batch, requests |-> reqNo]
         ELSE PageLoop(backend, all \o batch, offset + PageLimit, reqNo + 1, failAt)

\* GetAllTorrentsRun with a fallback that extends the pages already fetched
GetAllTorrentsRunKeepingPages(backend, failAt, fallbackFails) ==
    LET r == PageLoop(backend, <<>>, 0, 1, failAt) IN
    IF ~r.raised
    THEN [result |-> r.result, requests |-> r.requests, fellBack |-> FALSE,
          fallbackRaised |-> FALSE]
    ELSE [result |-> IF fallbackFails THEN r.result ELSE r.result \o backend,
          requests |-> r.requests, fellBack |-> TRUE, fallbackRaised |-> fallbackFails]

\* lines 43-75: the loop, and the unpaged call of the except clause, which
\* raises when fallbackFails; fellBack and fallbackRaised record the path taken
GetAllTorrentsRun(backend, failAt, fallbackFails) ==
    LET r == PageLoop(backend, <<>>, 0, 1, failAt) IN
    IF ~r.raised
    THEN [result |-> r.result, requests |-> r.requests, fellBack |-> FALSE,
          fallbackRaised |-> FALSE]
    ELSE [result |-> IF fallbackFails THEN <<>> ELSE backend,
          requests |-> r.requests, fellBack |-> TRUE, fallbackRaised |-> fallbackFails]

get_all_torrents(backend) == GetAllTorrentsRun(backend, 0, FALSE).result

----------------------------------------------------------------------------
(* scheduler.apply_rules_for_instance *)

\* RuleMatches taking a tag rule's value for a part of a tag, as it is for a URL
RuleMatchesPartOfTag(rule, torrent) ==
    LET rule_values == CommaList(rule.condition_value) IN
    IF rule.condition_type = "tag"
    THEN LET current_tags == CommaList(torrent.tags) IN
         \E i \in DOMAIN rule_values : \E j \in DOMAIN current_tags :
             Contains(current_tags[j], rule_values[i])
    ELSE IF rule.condition_type = "tracker"
    THEN \E j \in DOMAIN torrent.trackers : \E i \in DOMAIN rule_values :
             Contains(torrent.trackers[j].url, rule_values[i])
    ELSE FALSE

\* lines 26-46: does the rule's condition match the torrent
RuleMatches(rule, torrent) ==
    LET rule_values == CommaList(rule.condition_value) IN
    IF rule.condition_type = "tag"
    THEN LET current_tags == CommaList(torrent.tags) IN
         \E i \in DOMAIN rule_values : rule_values[i] \in Range(current_tags)
    ELSE IF rule.condition_type = "tracker"
    THEN \E j \in DOMAIN torrent.trackers : \E i \in DOMAIN rule_values :
             Contains(torrent.trackers[j].url, rule_values[i])
    ELSE FALSE

\* the indices of a set, ascending
RECURSIVE Ascending(_)
Ascending(S) ==
    IF S = {} THEN <<>>
    ELSE LET m == CHOOSE i \in S : \A j \in S : i <= j
         IN <<m>> \o Ascending(S \ {m})

\* MatchedRules without the break of line 96: every matching rule is entered
MatchedRulesNoBreak(rules, torrent) ==
    Ascending({i \in DOMAIN rules : RuleMatches(rules[i], torrent)})

\* MatchedRules with the break of line 96 inside the else of line 61: a
\* matching rule the torrent conforms to does not end the loop
MatchedRulesUntilApplied(rules, torrent) ==
    LET conforming(rule) ==
            /\ (rule.share_limit_ratio # None
                    => torrent.ratio_limit = Val(rule.share_limit_ratio))
            /\ (rule.share_limit_time # None
                    => torrent.seeding_time_limit = Val(rule.share_limit_time))
            /\ (rule.max_upload_speed # None => torrent.up_limit = Val(rule.max_upload_speed))
            /\ (rule.max_download_speed # None
                    => torrent.dl_limit = Val(rule.max_download_speed))
        hits == {i \in DOMAIN rules : RuleMatches(rules[i], torrent)}
        applied == {i \in hits : ~conforming(rules[i])}
    IN IF applied = {} THEN <<>>
       ELSE <<CHOOSE i \in applied : \A j \in applied : i <= j>>

\* lines 25, 48, 96: the rules whose "if matched" body the loop over
\* instance.rules enters for one torrent: the break leaves the loop after the first
MatchedRules(rules, torrent) ==
    LET hits == {i \in DOMAIN rules : RuleMatches(rules[i], torrent)} IN
    IF hits = {} THEN <<>>
    ELSE <<CHOOSE i \in hits : \A j \in hits : i <= j>>

\* IsAlreadyApplied comparing the upload limit with the KiB figure of the log line
IsAlreadyAppliedKiB(rule, torrent) ==
    /\ (rule.share_limit_ratio # None => torrent.ratio_limit = Val(rule.share_limit_ratio))
    /\ (rule.share_limit_time # None => torrent.seeding_time_limit = Val(rule.share_limit_time))
    /\ (rule.max_upload_speed # None => torrent.up_limit = Val(rule.max_upload_speed) \div KiB)
    /\ (rule.max_download_speed # None => torrent.dl_limit = Val(rule.max_download_speed))

\* lines 50-58
IsAlreadyApplied(rule, torrent) ==
    /\ (rule.share_limit_ratio # None => torrent.ratio_limit = Val(rule.share_limit_ratio))
    /\ (rule.share_limit_time # None => torrent.seeding_time_limit = Val(rule.share_limit_time))
    /\ (rule.max_upload_speed # None => torrent.up_limit = Val(rule.max_upload_speed))
    /\ (rule.max_download_speed # None => torrent.dl_limit = Val(rule.max_download_speed))

OrSentinel(o) == IF o # None THEN Val(o) ELSE InheritSentinel

\* RuleCalls with one share-limit call for the ratio and one for the seeding time
RuleCallsPerField(rule) ==
    (IF rule.share_limit_ratio # None
     THEN <<[op |-> "set_share_limits",
             args |-> <<Val(rule.share_limit_ratio), InheritSentinel, InheritSentinel>>]>>
     ELSE <<>>)
    \o (IF rule.share_limit_time # None
        THEN <<[op |-> "set_share_limits",
                args |-> <<InheritSentinel, Val(rule.share_limit_time), InheritSentinel>>]>>
        ELSE <<>>)
    \o (IF rule.max_upload_speed # None
        THEN <<[op |-> "set_upload_limit", args |-> <<Val(rule.max_upload_speed)>>]>>
        ELSE <<>>)
    \o (IF rule.max_download_speed # None
        THEN <<[op |-> "set_download_limit", args |-> <<Val(rule.max_download_speed)>>]>>
        ELSE <<>>)

\* lines 66-78: the remote calls of one application, in order
RuleCalls(rule) ==
    (IF rule.share_limit_ratio # None \/ rule.share_limit_time # None
     THEN <<[op |-> "set_share_limits",
             args |-> <<OrSentinel(rule.share_limit_ratio),
                        OrSentinel(rule.share_limit_time), InheritSentinel>>]>>
     ELSE <<>>)
    \o (IF rule.max_upload_speed # None
        THEN <<[op |-> "set_upload_limit", args |-> <<Val(rule.max_upload_speed)>>]>>
        ELSE <<>>)
    \o (IF rule.max_download_speed # None
        THEN <<[op |-> "set_download_limit", args |-> <<Val(rule.max_download_speed)>>]>>
        ELSE <<>>)

\* lines 81-91: the details of the ActionLog row
RuleDetails(rule) ==
    (IF rule.share_limit_ratio # None
     THEN <<<<"Share Ratio", Val(rule.share_limit_ratio)>>>> ELSE <<>>)
    \o (IF rule.share_limit_time # None
        THEN <<<<"Seeding Time", Val(rule.share_limit_time)>>>> ELSE <<>>)
    \o (IF rule.max_upload_speed # None
        THEN <<<<"Up", Val(rule.max_upload_speed) \div KiB>>>> ELSE <<>>)
    \o (IF rule.max_download_speed # None
        THEN <<<<"Down", Val(rule.max_download_speed) \div KiB>>>> ELSE <<>>)

\* the qBittorrent side of a call: the torrent takes the values it is given
RemoteEffect(torrent, call) ==
    IF call.op = "set_share_limits"
    THEN [torrent EXCEPT !.ratio_limit = call.args[1], !.seeding_time_limit = call.args[2]]
    ELSE IF call.op = "set_upload_limit"
    THEN [torrent EXCEPT !.up_limit = call.args[1]]
    ELSE IF call.op = "set_download_limit"
    THEN [torrent EXCEPT !.dl_limit = call.args[1]]
    ELSE torrent

RECURSIVE RemoteEffects(_, _)
RemoteEffects(torrent, cs) ==
    IF cs = <<>> THEN torrent
    ELSE RemoteEffects(RemoteEffect(torrent, Head(cs)), Tail(cs))

\* the torrents of one qBittorrent after calls cs on the torrent with this hash
RemoteAfter(torrents, hash, cs) ==
    [i \in DOMAIN torrents |->
        IF torrents[i].hash = hash THEN RemoteEffects(torrents[i], cs) ELSE torrents[i]]

NoFail == [t |-> 0, k |-> 0]

\* lines 48-96 for the rules entered for torrent number idx of the snapshot.
\* st: [torrents (the remote side), calls, session, raised, used (calls tried for
\* this torrent so far)]; fail: the call that raises, as (torrent number, call number)
RECURSIVE ApplyMatched(_, _, _, _, _, _, _)
ApplyMatched(instance, torrent, idx, matched, fail, run, st) ==
    IF matched = <<>> \/ st.raised THEN st
    ELSE
      LET rule == instance.rules[Head(matched)] IN
      IF IsAlreadyApplied(rule, torrent)
      THEN ApplyMatched(instance, torrent, idx, Tail(matched), fail, run, st)
      ELSE
        LET cs == RuleCalls(rule)
            failsHere == fail.t = idx /\ fail.k > st.used /\ fail.k <= st.used + Len(cs)
            nOk == IF failsHere THEN fail.k - st.used - 1 ELSE Len(cs)
            done == [j \in 1..nOk |->
                        [op |-> cs[j].op, args |-> cs[j].args, instance |-> instance.id,
                         hash |-> torrent.hash, rule |-> Head(matched), run |-> run]]
            entry == [instance_id |-> instance.id,
                      action |-> <<"Applied rule", rule.name, torrent.name>>,
                      details |-> RuleDetails(rule),
                      hash |-> torrent.hash, rule |-> Head(matched), run |-> run]
            next == [torrents |-> RemoteAfter(st.torrents, torrent.hash, SubSeq(cs, 1, nOk)),
                     calls |-> st.calls \o done,
                     session |-> IF failsHere THEN st.session ELSE Append(st.session, entry),
                     raised |-> failsHere,
                     used |-> st.used + Len(cs)]
        IN ApplyMatched(instance, torrent, idx, Tail(matched), fail, run, next)

\* lines 24-96: the loop over the snapshot; an exception leaves it
RECURSIVE ApplyRulesLoop(_, _, _, _, _, _)
ApplyRulesLoop(instance, torrents, idx, fail, run, st) ==
    IF idx > Len(torrents) \/ st.raised THEN st
    ELSE ApplyRulesLoop(instance, torrents, idx + 1, fail, run,
            ApplyMatched(instance, torrents[idx], idx,
                         MatchedRules(instance.rules, torrents[idx]), fail, run,
                         [st EXCEPT !.used = 0]))

apply_rules_for_instance(instance, torrents, fail, run, st) ==
    ApplyRulesLoop(instance, torrents, 1, fail, run, st)

----------------------------------------------------------------------------
(* scheduler.apply_rules_job *)

\* lines 243-244 (258-259, 273-274): a client for the instance and its torrents
Acquired(js, id) == [js EXCEPT !.processed = Append(@, id)]

\* a commit also after a run that raised
CommitAlways(js, i, id, r) ==
    [js EXCEPT !.remote = [js.remote EXCEPT ![id] = r.torrents],
               !.calls = r.calls,
               !.session = <<>>,
               !.committed = @ \o r.session,
               !.raised = IF r.raised THEN @ \cup {i} ELSE @]

\* lines 246-249 (261-264, 276-279): commit after a run r of the instance's
\* function that returned, rollback after one that raised
CommitOrRollback(js, i, id, r) ==
    [js EXCEPT !.remote = [js.remote EXCEPT ![id] = r.torrents],
               !.calls = r.calls,
               !.session = <<>>,
               !.committed = IF r.raised THEN @ ELSE @ \o r.session,
               !.raised = IF r.raised THEN @ \cup {i} ELSE @]

\* lines 241-249 for instance number i and on: js is [remote, calls, session,
\* committed, raised (the instances whose processing raised), processed (the
\* instances a client was acquired for)]
RECURSIVE ApplyRulesJobLoop(_, _, _, _, _)
ApplyRulesJobLoop(insts, i, fails, run, js) ==
    IF i > Len(insts) THEN js
    ELSE ApplyRulesJobLoop(insts, i + 1, fails, run,
            CommitOrRollback(Acquired(js, insts[i].id), i, insts[i].id,
                apply_rules_for_instance(insts[i],
                    get_all_torrents(js.remote[insts[i].id]), fails[i], run,
                    [torrents |-> js.remote[insts[i].id], calls |-> js.calls,
                     session |-> js.session, raised |-> FALSE, used |-> 0])))

FailChoices == {NoFail} \cup [t : 1..MaxTorrents, k : 1..3]

ApplyRulesJob ==
    /\ runs < MaxRuns
    /\ \E fails \in [1..Len(instances) -> FailChoices] :
       \E js \in {ApplyRulesJobLoop(instances, 1, fails, runs + 1,
                      [remote |-> remote, calls |-> calls, session |-> session,
                       committed |-> committed, raised |-> {}, processed |-> <<>>])} :
            /\ remote' = js.remote
            /\ calls' = js.calls
            /\ session' = js.session
            /\ committed' = js.committed
            /\ runLog' = Append(runLog, [job |-> "apply_rules",
                                         processed |-> js.processed,
                                         raised |-> js.raised, before |-> remote,
                                         callsBefore |-> Len(calls),
                                         committedBefore |-> Len(committed)])
    /\ runs' = runs + 1
    /\ UNCHANGED <<instances, pageVars, pathVars, scanVars, orphanVars, groupVars, tagVars, schedVars, collectVars,
                   matchVars, logVars, cycleVars>>

----------------------------------------------------------------------------
(* The configurations the rule-application specification starts from *)

Rule(name, ctype, cvalue, ratio, time, up, down) ==
    [name |-> name, condition_type |-> ctype, condition_value |-> cvalue,
     share_limit_ratio |-> ratio, share_limit_time |-> time,
     max_upload_speed |-> up, max_download_speed |-> down]

RuleSet ==
    { Rule("timeup", "tag", <<"b", ",", " ", "a">>, None, Some(60), Some(1024), None),
      Rule("inert", "tag", <<"a">>, None, None, None, None),
      Rule("all", "tracker", <<"x">>, Some(2), Some(60), Some(2048), Some(2048)),
      Rule("ratio", "tracker", <<"y">>, Some(2), None, None, None),
      Rule("down", "tag", <<"a">>, None, None, None, Some(2048)) }

Injective(f) == \A i, j \in DOMAIN f : f[i] = f[j] => i = j

\* instance.rules: each rule at most once (the association's primary key)
RuleLists ==
    UNION { {f \in [1..n -> RuleSet] : Injective(f)} : n \in 0..MaxRules }

Tracker(url) == [url |-> url, msg |-> <<>>]

TorrentKind(tags, url, ratio, time, up, down) ==
    [tags |-> tags, trackers |-> <<Tracker(url)>>,
     ratio_limit |-> ratio, seeding_time_limit |-> time,
     up_limit |-> up, dl_limit |-> down]

TorrentKinds ==
    { TorrentKind(<<"a">>, <<"h", "/", "x">>, -2, -2, 0, 0),
      TorrentKind(<<"a", ",", " ", "b">>, <<"h", "/", "x">>, -2, 60, 1024, 0),
      TorrentKind(<<>>, <<"h", "/", "y">>, -2, -2, 0, 0) }

Torrent(hash, kind) ==
    [hash |-> hash, name |-> hash, tags |-> kind.tags, trackers |-> kind.trackers,
     ratio_limit |-> kind.ratio_limit, seeding_time_limit |-> kind.seeding_time_limit,
     up_limit |-> kind.up_limit, dl_limit |-> kind.dl_limit]

TorrentLists ==
    UNION { {[i \in 1..n |-> Torrent(i, k[i])] : k \in [1..n -> TorrentKinds]}
            : n \in 0..MaxTorrents }

Instance(id, rules) == [id |-> id, name |-> id, rules |-> rules]

InitRules ==
    /\ \E rs \in RuleLists : instances = <<Instance(1, rs)>>
    /\ \E ts \in TorrentLists : remote = [i \in {1} |-> ts]
    /\ calls = <<>>
    /\ session = <<>>
    /\ committed = <<>>
    /\ runs = 0
    /\ runLog = <<>>
    /\ PageIdle
    /\ PathIdle
    /\ ScanIdle
    /\ OrphanIdle
    /\ GroupIdle
    /\ TagIdle
    /\ SchedIdle
    /\ CollectIdle
    /\ MatchIdle
    /\ LogIdle
    /\ CycleIdle

NextRules == ApplyRulesJob

SpecRules == InitRules /\ [][NextRules]_vars

\* the same job on lists of the rule that sets no limit, the rule that sets
\* them all and the rule the second kind of torrent conforms to
ConformRuleSet == {r \in RuleSet : r.name \in {"inert", "all", "timeup"}}

ConformRuleLists ==
    UNION { {f \in [1..n -> ConformRuleSet] : Injective(f)} : n \in 0..MaxRules }

InitConform ==
    /\ \E rs \in ConformRuleLists : instances = <<Instance(1, rs)>>
    /\ \E ts \in TorrentLists : remote = [i \in {1} |-> ts]
    /\ calls = <<>>
    /\ session = <<>>
    /\ committed = <<>>
    /\ runs = 0
    /\ runLog = <<>>
    /\ PageIdle
    /\ PathIdle
    /\ ScanIdle
    /\ OrphanIdle
    /\ GroupIdle
    /\ TagIdle
    /\ SchedIdle
    /\ CollectIdle
    /\ MatchIdle
    /\ LogIdle
    /\ CycleIdle

SpecConform == InitConform /\ [][NextRules]_vars

----------------------------------------------------------------------------
(* One pass of the inner loop of apply_rules_for_instance, up to line 48: a    *)
(* rule of any condition type and value against a torrent's tags and trackers  *)

MaxChars == 3       \* characters of a condition value and of a tag string

Strings(alphabet, n) == UNION {[1..k -> alphabet] : k \in 0..n}

ConditionChars == {"a", "A", ",", " "}
ConditionTypes == {"tag", "tracker", "category"}
TrackerUrls == {<<"h", "a">>, <<"h", "A">>, <<"A", "a", "h">>}
TrackerLists == UNION {[1..n -> {Tracker(u) : u \in TrackerUrls}] : n \in 0..2}

InitMatch ==
    /\ \E ctype \in ConditionTypes, cvalue \in Strings(ConditionChars, MaxChars) :
          \/ \E tags \in Strings(ConditionChars, MaxChars) :
                mIn = Some([rule |-> Rule("r", ctype, cvalue, None, None, None, None),
                            torrent |-> [tags |-> tags,
                                         trackers |-> <<Tracker(<<"h", "a">>)>>]])
          \/ \E trackers \in TrackerLists :
                mIn = Some([rule |-> Rule("r", ctype, cvalue, None, None, None, None),
                            torrent |-> [tags |-> <<"a">>, trackers |-> trackers]])
    /\ mOut = None
    /\ PathIdle
    /\ RulesIdle
    /\ PageIdle
    /\ ScanIdle
    /\ OrphanIdle
    /\ GroupIdle
    /\ TagIdle
    /\ SchedIdle
    /\ CollectIdle
    /\ LogIdle
    /\ CycleIdle

\* lines 26-46 of one pass
MatchRule ==
    /\ mOut = None
    /\ \E a \in mIn : mOut' = Some(RuleMatches(a.rule, a.torrent))
    /\ UNCHANGED <<mIn, rulesVars, pageVars, pathVars, scanVars, orphanVars, groupVars,
                   tagVars, schedVars, collectVars, logVars, cycleVars>>

NextMatch == MatchRule

SpecMatch == InitMatch /\ [][NextMatch]_vars

----------------------------------------------------------------------------
(* scheduler._map_qbt_path_to_local *)

\* "not instance.qbt_download_dir": the column is NULL or the empty string
NotSet(dir) == dir = None \/ Val(dir) = <<>>

HasNul(s) == \E i \in DOMAIN s : s[i] = Nul

Returned(value) == [raised |-> FALSE, value |-> value]
Raised == [raised |-> TRUE, value |-> None]

\* Contained deciding on the raw string prefix
ContainedRawPrefix(qbt_path, qbt_root) == StartsWith(qbt_path, qbt_root)

\* line 293: os.path.commonpath([path, root]) == root
Contained(qbt_path, qbt_root) == CommonPath(qbt_path, qbt_root) = qbt_root

\* MapCanonical returning the joined local path as it is, not canonicalized
MapCanonicalAsJoined(lk, qbt_root, local_root, qbt_path) ==
    IF CommonPathRaises(qbt_path, qbt_root) THEN Raised
    ELSE IF Contained(qbt_path, qbt_root)
    THEN IF RelPathRaises(qbt_path) THEN Raised
         ELSE Returned(Some(Join2(local_root, RelPath(qbt_path, qbt_root))))
    ELSE Returned(None)

\* lines 293-296, on the three canonical paths of lines 289-291
MapCanonical(lk, qbt_root, local_root, qbt_path) ==
    IF CommonPathRaises(qbt_path, qbt_root) THEN Raised
    ELSE IF Contained(qbt_path, qbt_root)
    THEN IF RelPathRaises(qbt_path) THEN Raised
         ELSE Returned(Some(Canon(lk, Join2(local_root, RelPath(qbt_path, qbt_root)))))
    ELSE Returned(None)

\* lines 289-296, the body of the try: normpath raises TypeError on None, realpath
\* raises ValueError on an embedded null character
MapTry(lk, instance, qbt_path) ==
    IF qbt_path = None THEN Raised
    ELSE IF \/ HasNul(Val(instance.qbt_download_dir))
            \/ HasNul(Val(instance.mapped_download_dir))
            \/ HasNul(Val(qbt_path))
    THEN Raised
    ELSE MapCanonical(lk, Canon(lk, Val(instance.qbt_download_dir)),
                      Canon(lk, Val(instance.mapped_download_dir)),
                      Canon(lk, Val(qbt_path)))

\* Guarded without the except clause: the exception leaves the function
Unguarded(r) == r

\* lines 288, 297-298: except Exception: return None
Guarded(r) == IF r.raised THEN Returned(None) ELSE r

\* lines 281-298; qbt_path is Some(string), or None for a value that is no string
MapQbtPathToLocal(lk, instance, qbt_path) ==
    IF NotSet(instance.qbt_download_dir) \/ NotSet(instance.mapped_download_dir)
    THEN Returned(None)
    ELSE Guarded(MapTry(lk, instance, qbt_path))

----------------------------------------------------------------------------
(* Orphan detection: the expected paths, their inodes, the scan *)

\* the files of one torrent, one that no translation maps adding nothing when
\* there is no group root
RECURSIVE ExpectedOfFilesMappedOnly(_, _, _, _, _, _)
ExpectedOfFilesMappedOnly(lk, instance, torrent, i, group_root_real, expected) ==
    IF i > Len(torrent.files) THEN expected
    ELSE
    LET qbt_full_path == Join2(torrent.save_path, torrent.files[i])
        local_path == MapQbtPathToLocal(lk, instance, Some(qbt_full_path)).value
    IN  IF local_path # None
        THEN ExpectedOfFilesMappedOnly(lk, instance, torrent, i + 1, group_root_real,
                                       expected \cup {RealPath(lk, Val(local_path))})
        ELSE IF HasNul(qbt_full_path) THEN expected
        ELSE IF group_root_real # None
        THEN ExpectedOfFilesMappedOnly(lk, instance, torrent, i + 1, group_root_real,
                 IF /\ ~CommonPathRaises(Canon(lk, qbt_full_path), Val(group_root_real))
                    /\ CommonPath(Canon(lk, qbt_full_path), Val(group_root_real))
                         = Val(group_root_real)
                 THEN expected \cup {Canon(lk, qbt_full_path)}
                 ELSE expected)
        ELSE ExpectedOfFilesMappedOnly(lk, instance, torrent, i + 1, group_root_real,
                                       expected)

\* lines 318-340, the files of one torrent from the i-th on; an exception
\* (os.path.realpath on a null character) leaves the torrent with what it added
RECURSIVE ExpectedOfFiles(_, _, _, _, _, _)
ExpectedOfFiles(lk, instance, torrent, i, group_root_real, expected) ==
    IF i > Len(torrent.files) THEN expected
    ELSE
    LET qbt_full_path == Join2(torrent.save_path, torrent.files[i])
        local_path == MapQbtPathToLocal(lk, instance, Some(qbt_full_path)).value
    IN  IF local_path # None
        THEN ExpectedOfFiles(lk, instance, torrent, i + 1, group_root_real,
                             expected \cup {RealPath(lk, Val(local_path))})
        ELSE IF HasNul(qbt_full_path) THEN expected
        ELSE IF group_root_real # None
        THEN ExpectedOfFiles(lk, instance, torrent, i + 1, group_root_real,
                 IF /\ ~CommonPathRaises(Canon(lk, qbt_full_path), Val(group_root_real))
                    /\ CommonPath(Canon(lk, qbt_full_path), Val(group_root_real))
                         = Val(group_root_real)
                 THEN expected \cup {Canon(lk, qbt_full_path)}
                 ELSE expected)
        ELSE ExpectedOfFiles(lk, instance, torrent, i + 1, group_root_real,
                             expected \cup {Canon(lk, qbt_full_path)})

\* the try around the loop instead of inside it: the first listing that raises
\* ends the enumeration
RECURSIVE ExpectedOfTorrentsUntilError(_, _, _, _, _, _, _)
ExpectedOfTorrentsUntilError(lk, instance, torrents, i, files_fail, group_root_real, expected) ==
    IF i > Len(torrents) \/ torrents[i].hash \in files_fail THEN expected
    ELSE ExpectedOfTorrentsUntilError(lk, instance, torrents, i + 1, files_fail,
             group_root_real,
             ExpectedOfFiles(lk, instance, torrents[i], 1, group_root_real, expected))

\* lines 313-343, the torrents from the i-th on; files_fail holds the hashes
\* whose client.torrents_files call raises
RECURSIVE ExpectedOfTorrents(_, _, _, _, _, _, _)
ExpectedOfTorrents(lk, instance, torrents, i, files_fail, group_root_real, expected) ==
    IF i > Len(torrents) THEN expected
    ELSE ExpectedOfTorrents(lk, instance, torrents, i + 1, files_fail, group_root_real,
             IF torrents[i].hash \in files_fail THEN expected
             ELSE ExpectedOfFiles(lk, instance, torrents[i], 1, group_root_real, expected))

\* _collect_expected_local_paths; torrents is what get_all_torrents(client) returns
CollectExpectedLocalPaths(lk, instance, torrents, files_fail, group_mapped_root) ==
    ExpectedOfTorrents(lk, instance, torrents, 1, files_fail,
                       IF NotSet(group_mapped_root) THEN None
                       ELSE Some(Canon(lk, Val(group_mapped_root))),
                       {})

\* _collect_inodes
CollectInodes(fl, lk, paths) ==
    { <<st.st_dev, st.st_ino>> :
        st \in {r \in {Stat(fl, lk, p, FALSE) : p \in paths} : r.error = ""} }

\* line 365
MinAgeSeconds(min_age_days) == Max(0, min_age_days) * 24 * 3600

\* the patterns before the first invalid one: the loop left at re.error
CompiledUntilInvalid(ignore_patterns) ==
    SubSeq(ignore_patterns, 1,
           Min(Len(ignore_patterns),
               IF \A i \in DOMAIN ignore_patterns : ignore_patterns[i].valid
               THEN Len(ignore_patterns)
               ELSE (CHOOSE i \in DOMAIN ignore_patterns :
                        /\ ~ignore_patterns[i].valid
                        /\ \A j \in 1..(i - 1) : ignore_patterns[j].valid) - 1))

\* lines 366-373: a pattern is [valid, text]; an invalid one (re.error) is
\* skipped, a valid one is a literal text that search finds as a substring
Compiled(ignore_patterns) == SelectSeq(ignore_patterns, LAMBDA p : p.valid)

\* the patterns searched in the file's name instead of its full path
IgnoredByName(compiled, full_path) ==
    \E i \in DOMAIN compiled : Contains(SplitPath(full_path).tail, compiled[i].text)

\* line 379
Ignored(compiled, full_path) ==
    \E i \in DOMAIN compiled : Contains(full_path, compiled[i].text)

\* OldEnough excluding the boundary
OldEnoughStrictly(age, min_age_seconds) == age > min_age_seconds

\* line 389
OldEnough(age, min_age_seconds) == age >= min_age_seconds

\* IsOrphan deciding on the path alone
IsOrphanByPath(fl, lk, clock, full_path, expected_paths, expected_inodes, min_age_seconds, compiled) ==
    IF Ignored(compiled, full_path) \/ full_path \in expected_paths THEN FALSE
    ELSE LET st == Stat(fl, lk, full_path, TRUE) IN
         IF st.error # "" THEN FALSE
         ELSE OldEnough(clock - st.st_mtime, min_age_seconds)

\* lines 379-396, for one filename: whether it is appended to orphans
IsOrphan(fl, lk, clock, full_path, expected_paths, expected_inodes, min_age_seconds, compiled) ==
    IF Ignored(compiled, full_path) \/ full_path \in expected_paths THEN FALSE
    ELSE LET st == Stat(fl, lk, full_path, TRUE) IN
         IF st.error # "" THEN FALSE
         ELSE IF <<st.st_dev, st.st_ino>> \in expected_inodes THEN FALSE
         ELSE OldEnough(clock - st.st_mtime, min_age_seconds)

\* line 377
FullPaths(lk, walk) == [i \in DOMAIN walk |-> Canon(lk, walk[i])]

\* _find_orphaned_files
FindOrphanedFiles(fl, lk, clock, mapped_root, expected_paths, expected_inodes, min_age_days, ignore_patterns) ==
    IF mapped_root = <<>> \/ ~IsDir(fl, lk, mapped_root) THEN <<>>
    ELSE SelectSeq(FullPaths(lk, Walk(fl, lk, RealPath(lk, mapped_root))),
                   LAMBDA full_path :
                       IsOrphan(fl, lk, clock, full_path, expected_paths, expected_inodes,
                                MinAgeSeconds(min_age_days), Compiled(ignore_patterns)))

----------------------------------------------------------------------------
(* One call of _map_qbt_path_to_local *)

Cat(parts) == JoinSep(parts)    \* the path of these components, relative
Root(parts) == <<Sep>> \o JoinSep(parts)    \* the same under /

QbtRoots ==
    { None, Some(<<>>), Some(Root(<<<<"r">>>>)), Some(Root(<<<<"r">>>>) \o <<Sep>>),
      Some(<<"r">>), Some(<<Sep>>), Some(Root(<<<<"d", "a", "t", "a">>, <<"x">>>>)) }

LocalRoots == { None, Some(Root(<<<<"l">>>>)), Some(<<"l", Sep>>) }

PathInstance(q, l) == [qbt_download_dir |-> q, mapped_download_dir |-> l]

RelPaths == { Cat(<<<<"x">>, <<"y">>>>), Cat(<<<<"z">>, <<"y">>>>) }

OtherPaths ==
    { None, Some(<<>>), Some(<<"x", Nul>>),
      Some(Root(<<<<"d", "a", "t", "a">>, <<"x", "2">>, <<"f">>>>)),
      Some(Root(<<<<"r", "2">>, <<"y">>>>)),
      Some(Root(<<<<"o">>, <<"y">>>>)),
      Some(Root(<<<<"r">>, DotDot, <<"o">>, <<"y">>>>)),
      Some(Root(<<<<"r">>>>)),
      Some(Cat(<<DotDot, <<"w">>, <<"r">>, <<"x">>>>)),
      Some(Cat(<<<<"x">>, <<"y">>>>)) }

\* remoteRoot + "/" + rel
UnderRoot(root, rel) == root \o <<Sep>> \o rel

PathInputs(inst) ==
    OtherPaths \cup
    (IF inst.qbt_download_dir = None THEN {}
     ELSE {Some(UnderRoot(Val(inst.qbt_download_dir), rel)) : rel \in RelPaths})

Link(from, to) == [p \in {from} |-> to]

LinkTables ==
    { <<>>,
      Link(Root(<<<<"r">>, <<"x">>>>), Root(<<<<"o">>>>)),
      Link(Root(<<<<"r">>, <<"x">>>>), Root(<<<<"r">>, <<"z">>>>)),
      Link(Root(<<<<"r">>>>), Root(<<<<"t">>>>)),
      Link(Root(<<<<"l">>, <<"x">>>>), Root(<<<<"o">>>>)) }

InitPath ==
    /\ links \in LinkTables
    /\ \E q \in QbtRoots, l \in LocalRoots : pInst = PathInstance(q, l)
    /\ pPath \in PathInputs(pInst)
    /\ pOut = None
    /\ RulesIdle
    /\ PageIdle
    /\ ScanIdle
    /\ OrphanIdle
    /\ GroupIdle
    /\ TagIdle
    /\ SchedIdle
    /\ CollectIdle
    /\ MatchIdle
    /\ LogIdle
    /\ CycleIdle

Translate ==
    /\ pOut = None
    /\ pOut' = Some(MapQbtPathToLocal(links, pInst, pPath))
    /\ UNCHANGED <<links, pInst, pPath, rulesVars, pageVars, scanVars, orphanVars,
                   groupVars, tagVars, schedVars, collectVars,
                   matchVars, logVars, cycleVars>>

NextPath == Translate

SpecPath == InitPath /\ [][NextPath]_vars

----------------------------------------------------------------------------
(* get_all_torrents on a backend of N torrents *)

InitPage ==
    /\ \E n \in 0..MaxBackend : pgBackend = [i \in 1..n |-> i]
    /\ pgOut = None
    /\ RulesIdle
    /\ PathIdle
    /\ ScanIdle
    /\ OrphanIdle
    /\ GroupIdle
    /\ TagIdle
    /\ SchedIdle
    /\ CollectIdle
    /\ MatchIdle
    /\ LogIdle
    /\ CycleIdle

\* one call of get_all_torrents; any one page request may raise, and so may the
\* unpaged call of the fallback
GetAllTorrents ==
    /\ pgOut = None
    /\ \E failAt \in 0..(Len(pgBackend) \div PageLimit + 1), fallbackFails \in BOOLEAN :
          pgOut' = Some(GetAllTorrentsRun(pgBackend, failAt, fallbackFails))
    /\ UNCHANGED <<pgBackend, rulesVars, pathVars, scanVars, orphanVars, groupVars, tagVars, schedVars, collectVars,
                   matchVars, logVars, cycleVars>>

NextPage == GetAllTorrents

SpecPage == InitPage /\ [][NextPage]_vars

----------------------------------------------------------------------------
(* One call of _find_orphaned_files, on the inodes of its expected paths *)

LocalFile(dev, ino, mtime, access) ==
    [st_dev |-> dev, st_ino |-> ino, st_mtime |-> mtime, access |-> access]

Access == {"ok", "denied", "vanishing"}

\* the clock of every run
Clock == (MaxDays + 1) * 24 * 3600

\* ages on both sides of every threshold, the future included
Ages == {d * 24 * 3600 - e : d \in 0..MaxDays, e \in {0, 1}}

PathXY == Root(<<<<"l">>, <<"x">>, <<"y">>>>)
PathZY == Root(<<<<"l">>, <<"z">>, <<"y">>>>)
PathOY == Root(<<<<"o">>, <<"y">>>>)

\* a file below the scanned root, of any age, and possibly a second file, below
\* the root or outside it, that may be a hard link to the first
ScanFiles ==
    LET scanned == {<<>>} \cup
            {[p \in {PathXY} |-> LocalFile(1, ino, Clock - age, access)] :
                ino \in {1, 2}, age \in Ages, access \in Access}
        other == {<<>>} \cup
            {[p \in {q} |-> LocalFile(1, 1, Clock - MaxDays * 24 * 3600, access)] :
                q \in {PathZY, PathOY}, access \in Access}
    IN {a @@ b : a \in scanned, b \in other}

ScanLinks ==
    { <<>>, Link(Root(<<<<"l">>, <<"s">>>>), PathXY) }

ScanExpected == { {}, {PathZY}, {PathOY}, {PathXY, PathZY} }

Pattern(valid, text) == [valid |-> valid, text |-> text]

ScanPatterns ==
    { <<>>, <<Pattern(FALSE, <<"(">>)>>, <<Pattern(FALSE, <<"(">>), Pattern(TRUE, <<"x", "/">>)>> }

ScanRoots == { Root(<<<<"l">>>>), Root(<<<<"l">>, <<"x">>, <<"y">>>>) }

InitScan ==
    /\ files \in ScanFiles
    /\ links \in ScanLinks
    /\ now = Clock
    /\ \E root \in ScanRoots, exp \in ScanExpected, days \in -1..MaxDays,
          pats \in ScanPatterns :
          sArgs = Some([mapped_root |-> root, expected_paths |-> exp,
                        min_age_days |-> days, ignore_patterns |-> pats])
    /\ sOut = None
    /\ pInst = None /\ pPath = None /\ pOut = None
    /\ RulesIdle
    /\ PageIdle
    /\ OrphanIdle
    /\ GroupIdle
    /\ TagIdle
    /\ SchedIdle
    /\ CollectIdle
    /\ MatchIdle
    /\ LogIdle
    /\ CycleIdle

\* lines 434 and 447: the inodes of the expected paths, then the scan
FindOrphans ==
    /\ sOut = None
    /\ \E a \in sArgs :
       \E inodes \in {CollectInodes(files, links, a.expected_paths)} :
          sOut' = Some([expected_inodes |-> inodes,
                        orphans |-> FindOrphanedFiles(files, links, now, a.mapped_root,
                                        a.expected_paths, inodes, a.min_age_days,
                                        a.ignore_patterns)])
    /\ UNCHANGED <<files, now, sArgs, links, pInst, pPath, pOut, rulesVars, pageVars,
                   orphanVars, groupVars, tagVars, schedVars, collectVars,
                   matchVars, logVars, cycleVars>>

NextScan == FindOrphans

SpecScan == InitScan /\ [][NextScan]_vars

----------------------------------------------------------------------------
(* detect_orphaned_files_job.  A run's faults say which calls fail:           *)
(*   connect i     get_client(instance i) returns None                        *)
(*   page i        the paged listing of instance i raises, the fallback works *)
(*   list i        the paged listing and the fallback both raise              *)
(*   files i h     client.torrents_files raises for torrent h of instance i   *)
(*   send g        send_notification returns False for the g-th root          *)
(*   commit g      db.session.commit raises for the g-th root                 *)

DefaultMinAgeDays == 7
max_list == 10

Fault(kind, a, b) == [kind |-> kind, a |-> a, b |-> b]

\* line 412
Configured(insts) ==
    SelectSeq(insts, LAMBDA i : ~NotSet(i.qbt_download_dir) /\ ~NotSet(i.mapped_download_dir))

\* line 307, for the client of instance id
Listed(rem, id, faults) ==
    GetAllTorrentsRun(rem[id],
                      IF Fault("page", id, 0) \in faults \/ Fault("list", id, 0) \in faults
                      THEN 1 ELSE 0,
                      Fault("list", id, 0) \in faults).result

\* lines 417-422: None when the client is not there, else the instance's paths
InstPaths(lk, rem, inst, faults) ==
    IF Fault("connect", inst.id, 0) \in faults THEN None
    ELSE Some(CollectExpectedLocalPaths(lk, inst, Listed(rem, inst.id, faults),
                  {h \in 1..Len(rem[inst.id]) : Fault("files", inst.id, h) \in faults},
                  None))

\* Merge keeping the last instance's paths only
MergeOverwriting(global_expected_paths, inst_paths) == inst_paths

\* line 423
Merge(global_expected_paths, inst_paths) == global_expected_paths \cup inst_paths

\* lines 417-423, inst_paths being None when the client is not there
MergeInst(global_expected_paths, inst_paths) ==
    IF inst_paths = None THEN global_expected_paths
    ELSE Merge(global_expected_paths, Val(inst_paths))

\* lines 415-427
RECURSIVE GlobalExpectedPaths(_, _, _, _, _, _)
GlobalExpectedPaths(lk, rem, insts, i, faults, global_expected_paths) ==
    IF i > Len(insts) THEN global_expected_paths
    ELSE GlobalExpectedPaths(lk, rem, insts, i + 1, faults,
             MergeInst(global_expected_paths, InstPaths(lk, rem, insts[i], faults)))

\* lines 438-441: the keys of groups, in insertion order
RECURSIVE GroupKeys(_, _, _, _)
GroupKeys(lk, insts, i, keys) ==
    IF i > Len(insts) THEN keys
    ELSE LET real_group_key == Canon(lk, Val(insts[i].mapped_download_dir)) IN
         GroupKeys(lk, insts, i + 1,
                   IF \E k \in DOMAIN keys : keys[k] = real_group_key THEN keys
                   ELSE Append(keys, real_group_key))

\* the instances of a root, the last in query order first
GroupInstancesLastFirst(lk, insts, mapped_root) ==
    LET group == SelectSeq(insts, LAMBDA i : Canon(lk, Val(i.mapped_download_dir)) = mapped_root)
    IN [k \in DOMAIN group |-> group[Len(group) + 1 - k]]

\* lines 439-441: groups[real_group_key], in query order
GroupInstances(lk, insts, mapped_root) ==
    SelectSeq(insts, LAMBDA i : Canon(lk, Val(i.mapped_download_dir)) = mapped_root)

\* lines 457-462
OrphanRows(owner, orphaned) ==
    [i \in DOMAIN orphaned |->
        [instance_id |-> owner.id, action |-> <<"Orphaned file detected">>,
         details |-> orphaned[i]]]

\* lines 465-473
OrphanMessage(mapped_root, min_age_days, owner, orphaned) ==
    [mapped_root |-> mapped_root, min_age_days |-> min_age_days, owner |-> owner.name,
     listed |-> SubSeq(orphaned, 1, Min(max_list, Len(orphaned))),
     more_count |-> Max(0, Len(orphaned) - max_list)]

\* lines 443-480, for the g-th root and its orphans; js is [session, committed,
\* sent, scanned]
ScanGroup(js, g, mapped_root, owner, orphaned, min_age_days, faults) ==
    LET message == OrphanMessage(mapped_root, min_age_days, owner, orphaned)
        delivered == Fault("send", g, 0) \notin faults
        added == js.session \o OrphanRows(owner, orphaned)
                 \o (IF delivered THEN <<[message |-> message]>> ELSE <<>>)
        raised == orphaned # <<>> /\ Fault("commit", g, 0) \in faults
    IN [session |-> IF orphaned = <<>> THEN js.session ELSE <<>>,
        committed |-> IF orphaned = <<>> \/ raised THEN js.committed
                      ELSE js.committed \o added,
        sent |-> IF orphaned # <<>> /\ delivered THEN Append(js.sent, message)
                 ELSE js.sent,
        scanned |-> Append(js.scanned, [mapped_root |-> mapped_root, owner |-> owner.id,
                                        orphaned |-> orphaned, raised |-> raised])]

\* lines 443-480
RECURSIVE ScanGroups(_, _, _, _, _, _, _, _, _, _, _)
ScanGroups(js, fl, lk, clock, insts, keys, g, paths, inodes, st, faults) ==
    IF g > Len(keys) THEN js
    ELSE ScanGroups(
             ScanGroup(js, g, keys[g], GroupInstances(lk, insts, keys[g])[1],
                       FindOrphanedFiles(fl, lk, clock, keys[g], paths, inodes,
                                         st.min_age_days, st.ignore_patterns),
                       st.min_age_days, faults),
             fl, lk, clock, insts, keys, g + 1, paths, inodes, st, faults)

\* lines 405-409
ScanSettings(stg) ==
    [enabled |-> stg.orphaned_scan_enabled,
     min_age_days |-> IF stg.orphaned_min_age_days = None THEN DefaultMinAgeDays
                      ELSE Val(stg.orphaned_min_age_days),
     ignore_patterns |-> IF stg.orphaned_ignore_patterns = None THEN <<>>
                         ELSE Val(stg.orphaned_ignore_patterns)]

\* detect_orphaned_files_job, from the global expected paths on
DetectFrom(js, fl, lk, clock, insts, paths, st, faults) ==
    IF ~st.enabled \/ paths = {} THEN js
    ELSE ScanGroups(js, fl, lk, clock, insts, GroupKeys(lk, insts, 1, <<>>), 1,
                    paths, CollectInodes(fl, lk, paths), st, faults)

\* the local files after a run that deleted what it reported
FilesAfterDeleting(fl, scanned) ==
    [p \in {q \in DOMAIN fl : \A g \in DOMAIN scanned : q \notin Range(scanned[g].orphaned)}
        |-> fl[p]]

\* the local files after a run: lines 359-397 and 399-480 call os.path.isdir,
\* os.path.realpath, os.walk and os.stat, and nothing that writes
FilesAfter(fl, scanned) == fl

\* one run of the job, with at most one failing call
DetectOrphanedFilesJob ==
    /\ oLog = None
    /\ \E stg \in settings :
       \E faults \in {{}} \cup
            {{Fault(k, i, 0)} : k \in {"connect", "page", "list"}, i \in 1..Len(instances)}
            \cup {{Fault("files", i, 1)} : i \in 1..Len(instances)}
            \cup {{Fault(k, g, 0)} : k \in {"send", "commit"}, g \in 1..Len(instances)} :
       \E insts \in {Configured(instances)} :
       \E paths \in {IF ScanSettings(stg).enabled
                     THEN GlobalExpectedPaths(links, remote, insts, 1, faults, {})
                     ELSE {}} :
       \E js \in {DetectFrom([session |-> session, committed |-> committed,
                              sent |-> sent, scanned |-> <<>>],
                             files, links, now, insts, paths, ScanSettings(stg), faults)} :
          /\ session' = js.session
          /\ committed' = js.committed
          /\ sent' = js.sent
          /\ oLog' = Some([faults |-> faults, expected |-> paths, scanned |-> js.scanned])
          /\ files' = FilesAfter(files, js.scanned)
    /\ UNCHANGED <<instances, remote, calls, runs, runLog, settings, now, links,
                   sArgs, sOut, pInst, pPath, pOut, pageVars, groupVars, tagVars, schedVars, collectVars,
                   matchVars, logVars, cycleVars>>

----------------------------------------------------------------------------
(* The installations the orphan job runs on: instance 1 maps /r to /l, and  *)
(* instance 2 maps /q to the same root, to a root below it or to another    *)
(* root, or has no remote root.                                             *)

\* an Instance row; the three orphan columns have their defaults (app.py lines
\* 70-72), but for the scan flag of instance 1, which is set
OrphanInstance(id, q, l) ==
    [id |-> id, name |-> id, rules |-> <<>>, qbt_download_dir |-> q,
     mapped_download_dir |-> l,
     orphaned_scan_enabled |-> (id = 1), orphaned_min_age_days |-> DefaultMinAgeDays,
     orphaned_ignore_patterns |-> <<>>]

OrphanTorrent(hash, save_path, names) ==
    [hash |-> hash, name |-> hash, save_path |-> save_path, files |-> names]

JobClock == (DefaultMinAgeDays + 1) * 24 * 3600

SecondInstances ==
    { OrphanInstance(2, Some(Root(<<<<"q">>>>)), Some(Root(<<<<"l">>>>))),
      OrphanInstance(2, Some(Root(<<<<"q">>>>)), Some(Root(<<<<"l">>, <<"x">>>>))),
      OrphanInstance(2, Some(Root(<<<<"q">>>>)), Some(Root(<<<<"m">>>>))),
      OrphanInstance(2, None, Some(Root(<<<<"l">>>>))) }

FirstTorrents ==
    { <<>>, <<OrphanTorrent(1, Root(<<<<"r">>>>), <<Cat(<<<<"z">>, <<"y">>>>)>>)>> }

SecondTorrents ==
    { <<>>,
      <<OrphanTorrent(1, Root(<<<<"q">>>>), <<Cat(<<<<"x">>, <<"y">>>>)>>)>>,
      <<OrphanTorrent(1, Root(<<<<"q">>>>), <<<<"y">>>>)>>,
      <<OrphanTorrent(1, Root(<<<<"l">>>>), <<Cat(<<<<"x">>, <<"y">>>>)>>)>> }

JobFiles ==
    LET xy == {<<>>} \cup {[p \in {PathXY} |-> LocalFile(1, 1, t, "ok")] : t \in {0, JobClock - 1}}
        zy == {<<>>, [p \in {PathZY} |-> LocalFile(1, 2, 0, "ok")]}
        mk == {[p \in {Root(<<<<"m">>, <<"k">>>>)} |-> LocalFile(1, 3, 0, "ok")]}
    IN {a @@ b @@ c : a \in xy, b \in zy, c \in mk}

JobLinks ==
    { <<>>,
      Link(Root(<<<<"q">>, <<"x">>>>), Root(<<<<"o">>>>)),
      Link(Root(<<<<"l">>, <<"s">>>>), PathXY) }

JobSettings ==
    { [orphaned_scan_enabled |-> TRUE, orphaned_min_age_days |-> None,
       orphaned_ignore_patterns |-> None],
      [orphaned_scan_enabled |-> TRUE, orphaned_min_age_days |-> Some(0),
       orphaned_ignore_patterns |-> Some(<<Pattern(TRUE, <<"z", "/">>)>>)],
      [orphaned_scan_enabled |-> FALSE, orphaned_min_age_days |-> Some(0),
       orphaned_ignore_patterns |-> None] }

InitOrphan ==
    /\ \E second \in SecondInstances :
          instances = <<OrphanInstance(1, Some(Root(<<<<"r">>>>)), Some(Root(<<<<"l">>>>))),
                        second>>
    /\ \E t1 \in FirstTorrents, t2 \in SecondTorrents : remote = <<t1, t2>>
    /\ files \in JobFiles
    /\ links \in JobLinks
    /\ now = JobClock
    /\ settings \in {Some(stg) : stg \in JobSettings}
    /\ calls = <<>> /\ session = <<>> /\ committed = <<>> /\ runs = 0 /\ runLog = <<>>
    /\ sent = <<>> /\ oLog = None
    /\ sArgs = None /\ sOut = None
    /\ pInst = None /\ pPath = None /\ pOut = None
    /\ PageIdle
    /\ GroupIdle
    /\ TagIdle
    /\ SchedIdle
    /\ CollectIdle
    /\ MatchIdle
    /\ LogIdle
    /\ CycleIdle

NextOrphan == DetectOrphanedFilesJob

SpecOrphan == InitOrphan /\ [][NextOrphan]_vars

----------------------------------------------------------------------------
(* app.group_orphaned_files_by_directory *)

\* the keys of a dict in insertion order: the distinct values of keys[i]
RECURSIVE InsertionOrder(_, _, _)
InsertionOrder(keys, i, seen) ==
    IF i > Len(keys) THEN seen
    ELSE InsertionOrder(keys, i + 1,
                        IF \E k \in DOMAIN seen : seen[k] = keys[i] THEN seen
                        ELSE Append(seen, keys[i]))

\* app.py lines 248-263
find_common_grouping_directory(file_path) ==
    LET parts == NonEmpty(Split(file_path, Sep)) IN
    IF Len(parts) >= 2 THEN <<Sep>> \o JoinSep(SubSeq(parts, 1, 2))
    ELSE IF Len(parts) = 1 THEN <<Sep>> \o parts[1]
    ELSE <<Sep>>

\* list.sort(key=lambda x: x.file_path): stable, so a row goes after its equals
RECURSIVE SortedByPath(_)
InsertByPath(sorted, f) ==
    LET n == Cardinality({i \in DOMAIN sorted : ~StrLess(f.file_path, sorted[i].file_path)})
    IN SubSeq(sorted, 1, n) \o <<f>> \o SubSeq(sorted, n + 1, Len(sorted))
SortedByPath(fs) ==
    IF fs = <<>> THEN <<>>
    ELSE InsertByPath(SortedByPath(SubSeq(fs, 1, Len(fs) - 1)), fs[Len(fs)])

\* sum(f.file_size or 0 for f in dir_files)
RECURSIVE TotalSize(_)
TotalSize(dir_files) ==
    IF dir_files = <<>> THEN 0
    ELSE (IF Head(dir_files).file_size = None THEN 0 ELSE Val(Head(dir_files).file_size))
         + TotalSize(Tail(dir_files))

\* IsGroup asking for more than two files
IsGroupOfThree(dir_files) == Len(dir_files) > 2

\* line 274
IsGroup(dir_files) == Len(dir_files) > 1

\* lines 273-286, over the sorted directories from the i-th on
RECURSIVE GroupLoop(_, _, _, _)
GroupLoop(fs, directories, i, out) ==
    IF i > Len(directories) THEN out
    ELSE LET dir_files ==
                 SelectSeq(fs, LAMBDA f :
                     find_common_grouping_directory(f.file_path) = directories[i])
         IN GroupLoop(fs, directories, i + 1,
                IF IsGroup(dir_files)
                THEN [out EXCEPT !.groups =
                         Append(@, [directory |-> directories[i],
                                    files |-> SortedByPath(dir_files),
                                    total_size |-> TotalSize(dir_files)])]
                ELSE [out EXCEPT !.ungrouped = @ \o dir_files])

\* lines 238-295, for the rows of one instance; the groups come out in the order
\* of their directories, which the final sort keeps
GroupInstanceFiles(fs) ==
    GroupLoop(fs,
              SortedStrings({find_common_grouping_directory(fs[i].file_path) : i \in DOMAIN fs}),
              1, [groups |-> <<>>, ungrouped |-> <<>>])

\* group_orphaned_files_by_directory: result, as instance ids in insertion order
\* and the entry of each
GroupOrphanedFilesByDirectory(orphaned_files) ==
    LET ids == InsertionOrder([i \in DOMAIN orphaned_files |-> orphaned_files[i].instance_id],
                              1, <<>>)
    IN [ids |-> ids,
        entry |-> [id \in Range(ids) |->
                     GroupInstanceFiles(SelectSeq(orphaned_files,
                                                  LAMBDA f : f.instance_id = id))]]

----------------------------------------------------------------------------
(* One call of group_orphaned_files_by_directory *)

OrphanedFile(id, instance_id, file_path, file_size) ==
    [id |-> id, instance_id |-> instance_id, file_path |-> file_path,
     file_size |-> file_size]

Mkv(name) == name \o <<".", "m", "k", "v">>

PathA == Root(<<<<"d">>, <<"X">>, Mkv(<<"a">>)>>)
PathB == Root(<<<<"d">>, <<"X">>, Mkv(<<"b">>)>>)
PathC == Root(<<<<"d">>, <<"Y">>, Mkv(<<"c">>)>>)

\* [instance_id, file_path, file_size] of the rows: the three files of two release
\* folders, a file two levels further down, a file directly under the root
OrphanKinds ==
    [instance_id : {1}, file_size : {None, Some(3)},
     file_path : {PathA, PathB, PathC, Root(<<<<"e">>>>),
                  Cat(<<<<"d">>, <<"X">>, <<"s">>, <<"q">>>>)}]
    \cup [instance_id : {2}, file_size : {None, Some(3)}, file_path : {PathA, PathB}]

InitGroup ==
    /\ TagIdle
    /\ SchedIdle
    /\ CollectIdle
    /\ MatchIdle
    /\ LogIdle
    /\ CycleIdle
    /\ \E n \in 0..MaxOrphans : \E k \in [1..n -> OrphanKinds] :
          gIn = [i \in 1..n |-> OrphanedFile(i, k[i].instance_id, k[i].file_path,
                                             k[i].file_size)]
    /\ gOut = None
    /\ RulesIdle
    /\ PageIdle
    /\ PathIdle
    /\ ScanIdle
    /\ OrphanIdle

GroupOrphans ==
    /\ gOut = None
    /\ gOut' = Some(GroupOrphanedFilesByDirectory(gIn))
    /\ UNCHANGED <<gIn, rulesVars, pageVars, pathVars, scanVars, orphanVars, tagVars, schedVars, collectVars,
                   matchVars, logVars, cycleVars>>

NextGroup == GroupOrphans

SpecGroup == InitGroup /\ [][NextGroup]_vars

----------------------------------------------------------------------------
(* The qBittorrent side of the tagging and pause calls.  A torrent's tags are *)
(* one string, the tags joined by ", ".                                        *)

UpperCase ==
    << "A", "B", "C", "D", "E", "F", "G", "H", "I", "J", "K", "L", "M",
       "N", "O", "P", "Q", "R", "S", "T", "U", "V", "W", "X", "Y", "Z" >>

LowerCase ==
    << "a", "b", "c", "d", "e", "f", "g", "h", "i", "j", "k", "l", "m",
       "n", "o", "p", "q", "r", "s", "t", "u", "v", "w", "x", "y", "z" >>

\* str.lower()
Lower(s) ==
    [i \in DOMAIN s |->
        IF \E k \in DOMAIN UpperCase : UpperCase[k] = s[i]
        THEN LowerCase[CHOOSE k \in DOMAIN UpperCase : UpperCase[k] = s[i]]
        ELSE s[i]]

\* ", ".join(tags)
RECURSIVE JoinTags(_)
JoinTags(tags) ==
    IF tags = <<>> THEN <<>>
    ELSE IF Len(tags) = 1 THEN tags[1]
    ELSE tags[1] \o <<",", " ">> \o JoinTags(Tail(tags))

\* [t.strip() for t in torrent.tags.split(',') if t.strip()] (lines 131, 203)
CurrentTags(torrent) == CommaList(torrent.tags)

HasTag(torrent, tag) == \E i \in DOMAIN CurrentTags(torrent) : CurrentTags(torrent)[i] = tag

AddTag(torrent, tag) ==
    IF HasTag(torrent, tag) THEN torrent
    ELSE [torrent EXCEPT !.tags = JoinTags(Append(CurrentTags(torrent), tag))]

RemoveTag(torrent, tag) ==
    [torrent EXCEPT !.tags = JoinTags(SelectSeq(CurrentTags(torrent), LAMBDA t : t # tag))]

PausedUP == <<"p", "a", "u", "s", "e", "d", "U", "P">>

\* the torrent after a tagging or pause call, or after a call of a rule
TagEffect(torrent, call) ==
    IF call.op = "add_tags" THEN AddTag(torrent, call.args[1])
    ELSE IF call.op = "remove_tags" THEN RemoveTag(torrent, call.args[1])
    ELSE IF call.op = "pause" THEN [torrent EXCEPT !.state = PausedUP]
    ELSE RemoteEffect(torrent, call)

RECURSIVE TagEffects(_, _)
TagEffects(torrent, cs) ==
    IF cs = <<>> THEN torrent
    ELSE TagEffects(TagEffect(torrent, Head(cs)), Tail(cs))

\* the state after the calls cs of one transition of torrent number idx are
\* tried: fail is the call that raises, as (torrent number, call number), the
\* calls before it are issued; st is [torrents, calls, session, notified,
\* raised, used (the calls tried for this torrent so far)]
Issue(instance, torrent, idx, cs, fail, run, st) ==
    LET failsHere == fail.t = idx /\ fail.k > st.used /\ fail.k <= st.used + Len(cs)
        nOk == IF failsHere THEN fail.k - st.used - 1 ELSE Len(cs)
        done == [j \in 1..nOk |->
                    [op |-> cs[j].op, args |-> cs[j].args, instance |-> instance.id,
                     hash |-> torrent.hash, rule |-> 0, run |-> run]]
    IN [st EXCEPT !.torrents = [i \in DOMAIN @ |->
                                   IF @[i].hash = torrent.hash
                                   THEN TagEffects(@[i], SubSeq(cs, 1, nOk)) ELSE @[i]],
                  !.calls = @ \o done,
                  !.raised = failsHere,
                  !.used = @ + Len(cs)]

\* db.session.add(ActionLog(...)), unless the transition raised before it
Logged(instance, torrent, action, details, run, st) ==
    IF st.raised THEN st
    ELSE [st EXCEPT !.session = Append(@, [instance_id |-> instance.id, action |-> action,
                                           details |-> details, hash |-> torrent.hash,
                                           rule |-> 0, run |-> run])]

\* send_notification(message, ...), which returns delivered; with_row says the
\* caller adds a TelegramMessage row when it returned True
Notified(instance, torrent, message, delivered, with_row, run, st) ==
    IF st.raised THEN st
    ELSE [st EXCEPT !.notified = Append(@, [message |-> message, delivered |-> delivered,
                                            instance |-> instance.id,
                                            hash |-> torrent.hash, run |-> run]),
                    !.session = IF delivered /\ with_row
                                THEN Append(@, [message |-> message, run |-> run])
                                ELSE @]

\* ratio_limit=-1, seeding_time_limit=-1, inactive_seeding_time_limit=-1
GlobalLimit == -1

\* the three limits set to no limit (-2) instead
ResetToNoLimit ==
    [op |-> "set_share_limits", args |-> <<-2, -2, -2>>]

\* lines 140-145, 219-224
ResetShareLimits ==
    [op |-> "set_share_limits", args |-> <<GlobalLimit, GlobalLimit, GlobalLimit>>]

----------------------------------------------------------------------------
(* scheduler.tag_unregistered_torrents_for_instance *)

UNREGISTERED_STATUS_SUBSTRINGS ==
    << <<"u", "n", "r", "e", "g", "i", "s", "t", "e", "r", "e", "d">>,
       <<"T", "o", "r", "r", "e", "n", "t", " ", "h", "a", "s", " ", "b", "e", "e", "n", " ", "d", "e", "l", "e", "t", "e", "d">>,
       <<"T", "o", "r", "r", "e", "n", "t", " ", "n", "o", "t", " ", "r", "e", "g", "i", "s", "t", "e", "r", "e", "d", " ", "w", "i", "t", "h", " ", "t", "h", "i", "s", " ", "t", "r", "a", "c", "k", "e", "r">>,
       <<"T", "o", "r", "r", "e", "n", "t", " ", "i", "s", " ", "n", "o", "t", " ", "a", "u", "t", "h", "o", "r", "i", "z", "e", "d", " ", "f", "o", "r", " ", "u", "s", "e", " ", "o", "n", " ", "t", "h", "i", "s", " ", "t", "r", "a", "c", "k", "e", "r">>,
       <<"T", "h", "i", "s", " ", "t", "o", "r", "r", "e", "n", "t", " ", "d", "o", "e", "s", " ", "n", "o", "t", " ", "e", "x", "i", "s", "t">>,
       <<"T", "o", "r", "r", "e", "n", "t", " ", "n", "o", "t", " ", "f", "o", "u", "n", "d">> >>

Unregistered == <<"u", "n", "r", "e", "g", "i", "s", "t", "e", "r", "e", "d">>

\* the substrings looked for as they are written, not in lower case
OffendingMsgAsWritten(torrent) ==
    LET hits == {j \in DOMAIN torrent.trackers :
                    \E k \in DOMAIN UNREGISTERED_STATUS_SUBSTRINGS :
                        Contains(torrent.trackers[j].msg, UNREGISTERED_STATUS_SUBSTRINGS[k])}
    IN IF hits = {} THEN None
       ELSE Some(torrent.trackers[CHOOSE j \in hits : \A h \in hits : j <= h].msg)

\* lines 191-200: the message of the first tracker that holds one of the
\* substrings, None if no tracker does
OffendingMsg(torrent) ==
    LET hits == {j \in DOMAIN torrent.trackers :
                    \E k \in DOMAIN UNREGISTERED_STATUS_SUBSTRINGS :
                        Contains(Lower(torrent.trackers[j].msg),
                                 Lower(UNREGISTERED_STATUS_SUBSTRINGS[k]))}
    IN IF hits = {} THEN None
       ELSE Some(torrent.trackers[CHOOSE j \in hits : \A h \in hits : j <= h].msg)

\* lines 202-234 for torrent number idx of the snapshot
TagUnregisteredTorrent(instance, torrent, idx, fail, delivered, run, st) ==
    LET offending_msg == OffendingMsg(torrent)
        is_unregistered == offending_msg # None
        has_unregistered_tag == HasTag(torrent, Unregistered)
    IN IF is_unregistered /\ ~has_unregistered_tag
       THEN Notified(instance, torrent,
                <<"Tagged as unregistered", torrent.name, instance.name, Val(offending_msg)>>,
                delivered, TRUE, run,
                Logged(instance, torrent, <<"Tagged as unregistered", torrent.name>>,
                       <<"Tracker status", Val(offending_msg)>>, run,
                       Issue(instance, torrent, idx,
                             <<[op |-> "add_tags", args |-> <<Unregistered>>]>>,
                             fail, run, st)))
       ELSE IF ~is_unregistered /\ has_unregistered_tag
       THEN Logged(instance, torrent, <<"Removed 'unregistered' tag", torrent.name>>,
                   <<"Tracker status is now normal. Share limits reset to global settings.">>,
                   run,
                   Issue(instance, torrent, idx,
                         <<[op |-> "remove_tags", args |-> <<Unregistered>>],
                           ResetShareLimits>>,
                         fail, run, st))
       ELSE st

\* lines 190-234: the loop over the snapshot; an exception leaves it
RECURSIVE TagUnregisteredLoop(_, _, _, _, _, _, _)
TagUnregisteredLoop(instance, torrents, idx, fail, delivered, run, st) ==
    IF idx > Len(torrents) \/ st.raised THEN st
    ELSE TagUnregisteredLoop(instance, torrents, idx + 1, fail, delivered, run,
            TagUnregisteredTorrent(instance, torrents[idx], idx, fail, delivered, run,
                                   [st EXCEPT !.used = 0]))

tag_unregistered_torrents_for_instance(instance, torrents, fail, delivered, run, st) ==
    TagUnregisteredLoop(instance, torrents, 1, fail, delivered, run, st)

----------------------------------------------------------------------------
(* scheduler.tag_unregistered_torrents_job *)

\* Instance.query.all() where the job filters
FilterByNothing(insts, flag) == insts

\* Instance.query.filter_by(<flag>=True).all()
FilterBy(insts, flag) == SelectSeq(insts, LAMBDA i : i[flag])

\* the state a tagging function starts from for an instance
TagState(js, id) ==
    [torrents |-> js.remote[id], calls |-> js.calls, session |-> js.session,
     notified |-> js.notified, raised |-> FALSE, swallowed |-> FALSE, used |-> 0]

\* the notifications a function has sent stay sent, whatever the transaction
\* does; swallowed holds the instances whose function caught its own exception
KeepNotified(js, id, r) ==
    [js EXCEPT !.notified = r.notified,
               !.swallowed = IF r.swallowed THEN @ \cup {id} ELSE @]

\* lines 256-264 for instance number i of the filtered list and on
RECURSIVE TagUnregisteredJobLoop(_, _, _, _, _, _)
TagUnregisteredJobLoop(insts, i, fails, delivered, run, js) ==
    IF i > Len(insts) THEN js
    ELSE LET r == tag_unregistered_torrents_for_instance(insts[i],
                      get_all_torrents(js.remote[insts[i].id]), fails[insts[i].id],
                      delivered, run, TagState(js, insts[i].id))
         IN TagUnregisteredJobLoop(insts, i + 1, fails, delivered, run,
                KeepNotified(CommitOrRollback(Acquired(js, insts[i].id), insts[i].id,
                                              insts[i].id, r), insts[i].id, r))

\* the failing calls of one run: at most one instance has one
SingleFails(insts) ==
    {f \in [{insts[i].id : i \in DOMAIN insts} -> FailChoices] :
        \A a, b \in DOMAIN f : f[a] # NoFail /\ f[b] # NoFail => a = b}

\* the job's state at its start
JobState ==
    [remote |-> remote, calls |-> calls, session |-> session, committed |-> committed,
     notified |-> notified, raised |-> {}, swallowed |-> {}, processed |-> <<>>]

\* what a run leaves in runLog
RunEntry(job, js) ==
    [job |-> job, processed |-> js.processed, raised |-> js.raised,
     swallowed |-> js.swallowed, before |-> remote, callsBefore |-> Len(calls), committedBefore |-> Len(committed)]

TagUnregisteredTorrentsJob ==
    /\ runs < MaxRuns
    /\ \E fails \in SingleFails(instances), delivered \in BOOLEAN :
       \E js \in {TagUnregisteredJobLoop(FilterBy(instances, "tag_unregistered_torrents"),
                                         1, fails, delivered, runs + 1, JobState)} :
            /\ remote' = js.remote
            /\ calls' = js.calls
            /\ session' = js.session
            /\ committed' = js.committed
            /\ notified' = js.notified
            /\ runLog' = Append(runLog, RunEntry("tag_unregistered", js))
    /\ runs' = runs + 1
    /\ UNCHANGED <<instances, pageVars, pathVars, scanVars, orphanVars, groupVars, schedVars, collectVars,
                   matchVars, logVars, cycleVars>>

----------------------------------------------------------------------------
(* scheduler.tag_torrents_with_no_hard_links *)

NoHL == <<"n", "o", "H", "L">>

Hour == 3600

\* os.stat(path).st_nlink: the names of the file's inode
NLink(fl, lk, path) ==
    LET st == Stat(fl, lk, path, FALSE)
    IN Cardinality({q \in DOMAIN fl : fl[q].st_dev = st.st_dev /\ fl[q].st_ino = st.st_ino})

\* os.path.exists(path): os.stat works
Exists(fl, lk, path) == Stat(fl, lk, path, FALSE).error = ""

\* lines 120-126 for one file
FileIsHardLinked(fl, lk, instance, qbt_full_path) ==
    /\ StartsWith(qbt_full_path, Val(instance.qbt_download_dir))
    /\ LET mapped_path == Join2(Val(instance.mapped_download_dir),
                                RelPath(qbt_full_path, Val(instance.qbt_download_dir)))
       IN Exists(fl, lk, mapped_path) /\ NLink(fl, lk, mapped_path) > 1

\* lines 108-126
HasHardLink(fl, lk, instance, torrent) ==
    \E n \in DOMAIN torrent.files :
        FileIsHardLinked(fl, lk, instance, Join2(torrent.save_path, torrent.files[n]))

\* the local time zone of the server: its offset from UTC in seconds, before
\* and from the instant at
UtcOffset(tz, t) == IF t < tz.at THEN tz.before ELSE tz.after

\* datetime.fromtimestamp(t) and datetime.now() at instant t: the naive local
\* date and time, as seconds on the wall clock
FromTimestamp(tz, t) == t + UtcOffset(tz, t)

\* lines 157-159: the difference of two naive local datetimes
GraceOver(tz, clock, completion_on) ==
    /\ completion_on > 0
    /\ FromTimestamp(tz, clock) - FromTimestamp(tz, completion_on) > Hour

\* lines 113-174 for torrent number idx of the snapshot; the first call of a
\* torrent is client.torrents_files
TagNoHardLinksTorrent(fl, lk, tz, clock, instance, torrent, idx, fail, delivered, run, st) ==
    IF fail.t = idx /\ fail.k = 1 THEN [st EXCEPT !.raised = TRUE]
    ELSE
    LET has_hard_link == HasHardLink(fl, lk, instance, torrent)
        has_noHL_tag == HasTag(torrent, NoHL)
        listed == [st EXCEPT !.used = 1]
    IN IF has_hard_link /\ has_noHL_tag
       THEN Logged(instance, torrent, <<"Removed 'noHL' tag", torrent.name>>,
                   <<"Torrent now has hard links. Share limits reset to global settings.">>,
                   run,
                   Issue(instance, torrent, idx,
                         <<[op |-> "remove_tags", args |-> <<NoHL>>], ResetShareLimits>>,
                         fail, run, listed))
       ELSE IF ~has_hard_link /\ ~has_noHL_tag /\ GraceOver(tz, clock, torrent.completion_on)
       THEN Notified(instance, torrent,
                <<"tagged with 'noHL'", torrent.name, instance.name>>, delivered, FALSE, run,
                Logged(instance, torrent, <<"Tagged with noHL">>,
                       <<"has no hard links and was completed over an hour ago", torrent.name>>,
                       run,
                       Issue(instance, torrent, idx,
                             <<[op |-> "add_tags", args |-> <<NoHL>>]>>, fail, run, listed)))
       ELSE listed

\* lines 107-174: the loop over the snapshot; an exception leaves it
RECURSIVE TagNoHardLinksLoop(_, _, _, _, _, _, _, _, _, _, _)
TagNoHardLinksLoop(fl, lk, tz, clock, instance, torrents, idx, fail, delivered, run, st) ==
    IF idx > Len(torrents) \/ st.raised THEN st
    ELSE TagNoHardLinksLoop(fl, lk, tz, clock, instance, torrents, idx + 1, fail, delivered, run,
            TagNoHardLinksTorrent(fl, lk, tz, clock, instance, torrents[idx], idx, fail,
                                  delivered, run, [st EXCEPT !.used = 0]))

\* lines 176-177: the function catches what its loop raised
Swallowed(st) == [st EXCEPT !.raised = FALSE, !.swallowed = st.raised]

tag_torrents_with_no_hard_links(fl, lk, tz, clock, instance, torrents, fail, delivered, run, st) ==
    IF NotSet(instance.qbt_download_dir) \/ NotSet(instance.mapped_download_dir) THEN st
    ELSE Swallowed(TagNoHardLinksLoop(fl, lk, tz, clock, instance, torrents, 1, fail,
                                      delivered, run, st))

----------------------------------------------------------------------------
(* scheduler.tag_torrents_with_no_hard_links_job *)

\* lines 271-279 for instance number i of the filtered list and on
RECURSIVE TagNoHardLinksJobLoop(_, _, _, _, _, _, _, _, _, _)
TagNoHardLinksJobLoop(fl, lk, tz, clock, insts, i, fails, delivered, run, js) ==
    IF i > Len(insts) THEN js
    ELSE LET r == tag_torrents_with_no_hard_links(fl, lk, tz, clock, insts[i],
                      get_all_torrents(js.remote[insts[i].id]), fails[insts[i].id],
                      delivered, run, TagState(js, insts[i].id))
         IN TagNoHardLinksJobLoop(fl, lk, tz, clock, insts, i + 1, fails, delivered, run,
                KeepNotified(CommitOrRollback(Acquired(js, insts[i].id), insts[i].id,
                                              insts[i].id, r), insts[i].id, r))

\* the instant of the run
TagClock == 3 * Hour

\* the server keeps UTC, or its zone put the clocks forward or back by an hour
\* half an hour before the run
TimeZones ==
    {[at |-> 0, before |-> 0, after |-> 0],
     [at |-> TagClock - Hour \div 2, before |-> 0, after |-> Hour],
     [at |-> TagClock - Hour \div 2, before |-> Hour, after |-> 0]}

TagTorrentsWithNoHardLinksJob ==
    /\ runs < MaxRuns
    /\ \E fails \in SingleFails(instances), delivered \in BOOLEAN, tz \in TimeZones :
       \E js \in {TagNoHardLinksJobLoop(files, links, tz, now,
                                        FilterBy(instances, "tag_nohardlinks"),
                                        1, fails, delivered, runs + 1, JobState)} :
            /\ remote' = js.remote
            /\ calls' = js.calls
            /\ session' = js.session
            /\ committed' = js.committed
            /\ notified' = js.notified
            /\ runLog' = Append(runLog, RunEntry("tag_nohardlinks", js) @@ [tz |-> tz])
    /\ runs' = runs + 1
    /\ UNCHANGED <<instances, pageVars, pathVars, scanVars, orphanVars, groupVars, schedVars, collectVars,
                   matchVars, logVars, cycleVars>>

----------------------------------------------------------------------------
(* cross_seed_checker.pause_cross_seeded_torrents_for_instance *)

Paused == <<"p", "a", "u", "s", "e", "d">>

Http == <<"h", "t", "t", "p">>

\* 'paused' in t.state.lower()
IsPaused(torrent) == Contains(Lower(torrent.state), Paused)

\* line 28
PausedTorrentNames(torrents) ==
    {torrents[i].name : i \in {j \in DOMAIN torrents : IsPaused(torrents[j])}}

\* line 36: the first tracker URL that starts with http, None for 'N/A'
HttpTracker(torrent) ==
    LET hits == {j \in DOMAIN torrent.trackers : StartsWith(torrent.trackers[j].url, Http)}
    IN IF hits = {} THEN None
       ELSE Some(torrent.trackers[CHOOSE j \in hits : \A h \in hits : j <= h].url)

\* a pause of every torrent that is not paused
IsCrossSeedOfAny(torrent, paused_torrent_names) == ~IsPaused(torrent)

\* line 32
IsCrossSeed(torrent, paused_torrent_names) ==
    torrent.name \in paused_torrent_names /\ ~IsPaused(torrent)

\* lines 32-51 for torrent number idx of the snapshot
PauseCrossSeededTorrent(instance, torrent, idx, paused_torrent_names, fail, delivered, run, st) ==
    IF IsCrossSeed(torrent, paused_torrent_names)
    THEN Notified(instance, torrent,
             <<"Paused cross-seeded torrent", instance.name, torrent.name, HttpTracker(torrent)>>,
             delivered, TRUE, run,
             Logged(instance, torrent, <<"Paused cross-seeded torrent">>,
                    <<torrent.name, HttpTracker(torrent)>>, run,
                    Issue(instance, torrent, idx, <<[op |-> "pause", args |-> <<>>]>>,
                          fail, run, st)))
    ELSE st

\* lines 30-51: the loop over the snapshot; an exception leaves it
RECURSIVE PauseCrossSeededLoop(_, _, _, _, _, _, _, _)
PauseCrossSeededLoop(instance, torrents, idx, names, fail, delivered, run, st) ==
    IF idx > Len(torrents) \/ st.raised THEN st
    ELSE PauseCrossSeededLoop(instance, torrents, idx + 1, names, fail, delivered, run,
            PauseCrossSeededTorrent(instance, torrents[idx], idx, names, fail, delivered,
                                    run, [st EXCEPT !.used = 0]))

pause_cross_seeded_torrents_for_instance(instance, torrents, fail, delivered, run, st) ==
    Swallowed(PauseCrossSeededLoop(instance, torrents, 1, PausedTorrentNames(torrents),
                                   fail, delivered, run, st))

----------------------------------------------------------------------------
(* cross_seed_checker.pause_cross_seeded_torrents_job *)

\* lines 53-55: the function commits when its loop ended, and neither commits
\* nor rolls back when it caught an exception: the rows stay pending
CommitOrLeave(js, id, r) ==
    [js EXCEPT !.remote = [js.remote EXCEPT ![id] = r.torrents],
               !.calls = r.calls,
               !.session = IF r.swallowed THEN r.session ELSE <<>>,
               !.committed = IF r.swallowed THEN @ ELSE @ \o r.session]

\* lines 65-74 for instance number i of the filtered list and on
RECURSIVE PauseCrossSeededJobLoop(_, _, _, _, _, _)
PauseCrossSeededJobLoop(insts, i, fails, delivered, run, js) ==
    IF i > Len(insts) THEN js
    ELSE LET r == pause_cross_seeded_torrents_for_instance(insts[i],
                      get_all_torrents(js.remote[insts[i].id]), fails[insts[i].id],
                      delivered, run, TagState(js, insts[i].id))
         IN PauseCrossSeededJobLoop(insts, i + 1, fails, delivered, run,
                KeepNotified(CommitOrLeave(Acquired(js, insts[i].id), insts[i].id, r),
                             insts[i].id, r))

PauseCrossSeededTorrentsJob ==
    /\ runs < MaxRuns
    /\ \E fails \in SingleFails(instances), delivered \in BOOLEAN :
       \E js \in {PauseCrossSeededJobLoop(FilterBy(instances, "pause_cross_seeded_torrents"),
                                          1, fails, delivered, runs + 1, JobState)} :
            /\ remote' = js.remote
            /\ calls' = js.calls
            /\ session' = js.session
            /\ committed' = js.committed
            /\ notified' = js.notified
            /\ runLog' = Append(runLog, RunEntry("pause_cross_seeded", js))
    /\ runs' = runs + 1
    /\ UNCHANGED <<instances, pageVars, pathVars, scanVars, orphanVars, groupVars, schedVars, collectVars,
                   matchVars, logVars, cycleVars>>

----------------------------------------------------------------------------
(* The installations the jobs run on.  Both map /r to /l; on disk /l/y has a  *)
(* second name /m/k, /l/z has one name and /l/w is not there; /rr/y, outside  *)
(* both roots, has a second name /m/j.  Either two instances with any feature *)
(* flags hold the same two torrents, which give every job something to do, or *)
(* one instance with every flag set holds one or two torrents that differ in  *)
(* what one of the jobs looks at; or the first of two instances holds two     *)
(* cross-seeds of a paused torrent; or the one instance lacks a root; or its  *)
(* torrent is saved in /rr.                                                   *)

JobInstance(id, rules, flags, q, l) ==
    [id |-> id, name |-> id, rules |-> rules,
     tag_nohardlinks |-> "tag_nohardlinks" \in flags,
     pause_cross_seeded_torrents |-> "pause_cross_seeded_torrents" \in flags,
     tag_unregistered_torrents |-> "tag_unregistered_torrents" \in flags,
     qbt_download_dir |-> q, mapped_download_dir |-> l]

Flags == {"tag_nohardlinks", "pause_cross_seeded_torrents", "tag_unregistered_torrents"}

JobTorrent(hash, name, tags, msg, state, completion_on, names) ==
    [hash |-> hash, name |-> name, tags |-> tags,
     trackers |-> <<[url |-> <<"h", "t", "t", "p", "/", "x">>, msg |-> msg]>>,
     ratio_limit |-> -2, seeding_time_limit |-> -2, up_limit |-> 0, dl_limit |-> 0,
     state |-> state, completion_on |-> completion_on,
     save_path |-> Root(<<<<"r">>>>), files |-> names]

Uploading == <<"u", "p", "l", "o", "a", "d", "i", "n", "g">>

TagFiles ==
    [p \in {Root(<<<<"l">>, <<"y">>>>), Root(<<<<"m">>, <<"k">>>>), Root(<<<<"l">>, <<"z">>>>),
            Root(<<<<"r", "r">>, <<"y">>>>), Root(<<<<"m">>, <<"j">>>>)} |->
        IF p = Root(<<<<"l">>, <<"z">>>>) THEN LocalFile(1, 2, 0, "ok")
        ELSE IF p \in {Root(<<<<"r", "r">>, <<"y">>>>), Root(<<<<"m">>, <<"j">>>>)}
        THEN LocalFile(1, 3, 0, "ok")
        ELSE LocalFile(1, 1, 0, "ok")]

TagInstance(id, flags) ==
    JobInstance(id, <<Rule("all", "tracker", <<"x">>, Some(2), Some(60), Some(2048), Some(2048))>>,
                flags, Some(Root(<<<<"r">>>>)), Some(Root(<<<<"l">>>>)))

\* a registered torrent that is paused, has a hard link and bears both tags, and
\* one of the same name that is not paused, has no hard link, bears no tag and
\* whose tracker calls it unregistered
BusyTorrents ==
    << JobTorrent(1, <<"n">>, <<"n", "o", "H", "L", ",", " ", "u", "n", "r", "e", "g", "i", "s", "t", "e", "r", "e", "d">>, <<>>, PausedUP, 1, <<<<"y">>>>),
       JobTorrent(2, <<"n">>, <<>>, <<"U", "n", "r", "e", "g", "i", "s", "t", "e", "r", "e", "d", " ", "t", "o", "r", "r", "e", "n", "t">>, Uploading, 1, <<<<"z">>>>) >>

\* torrents that differ in file, noHL tag and completion time
HardLinkKinds ==
    { [tags |-> t, completion_on |-> c, names |-> <<<<f>>>>, msg |-> <<>>,
       state |-> Uploading, name |-> <<"n">>]
        : t \in {<<>>, NoHL, <<"n", "o", "H", "L", ",", " ", "u", "n", "r", "e", "g", "i", "s", "t", "e", "r", "e", "d">>},
          c \in {0, TagClock - Hour - 1, TagClock - Hour, TagClock - Hour + 1},
          f \in {"y", "z", "w"} }

\* torrents that differ in tracker message and unregistered tag
UnregisteredKinds ==
    { [tags |-> t, completion_on |-> 0, names |-> <<<<"y">>>>, msg |-> m,
       state |-> Uploading, name |-> <<"n">>]
        : t \in {<<>>, Unregistered, <<"U", "n", "r", "e", "g", "i", "s", "t", "e", "r", "e", "d">>, <<"n", "o", "H", "L", ",", " ", "u", "n", "r", "e", "g", "i", "s", "t", "e", "r", "e", "d">>},
          m \in {<<>>, <<"U", "n", "r", "e", "g", "i", "s", "t", "e", "r", "e", "d", " ", "t", "o", "r", "r", "e", "n", "t">>, <<"n", "o", "t", " ", "r", "e", "g", "i", "s", "t", "e", "r", "e", "d">>, <<"T", "o", "r", "r", "e", "n", "t", " ", "N", "O", "T", " ", "F", "O", "U", "N", "D", " ", "i", "n", " ", "d", "a", "t", "a", "b", "a", "s", "e">>} }

\* torrents that differ in state and name
CrossSeedKinds ==
    { [tags |-> <<>>, completion_on |-> 0, names |-> <<<<"y">>>>, msg |-> <<>>,
       state |-> st, name |-> <<n>>]
        : st \in {PausedUP, Uploading, <<"P", "a", "u", "s", "e", "d", "D", "L">>}, n \in {"n", "m"} }

OfKind(hash, k) ==
    JobTorrent(hash, k.name, k.tags, k.msg, k.state, k.completion_on, k.names)

\* one torrent of any kind of the family, or one followed by one of seconds
KindLists(kinds, seconds) ==
    {<<OfKind(1, k)>> : k \in kinds}
    \cup {<<OfKind(1, k1), OfKind(2, k2)>> : k1 \in kinds, k2 \in seconds}

\* the second torrent has or lacks the tag and the hard link, the message
HardLinkSeconds ==
    {k \in HardLinkKinds : /\ k.completion_on = TagClock - Hour - 1
                           /\ k.tags \in {<<>>, NoHL}
                           /\ k.names \in {<<<<"y">>>>, <<<<"z">>>>}}

UnregisteredSeconds ==
    {k \in UnregisteredKinds : k.tags \in {<<>>, Unregistered} /\ k.msg \in {<<>>, <<"U", "n", "r", "e", "g", "i", "s", "t", "e", "r", "e", "d", " ", "t", "o", "r", "r", "e", "n", "t">>}}

\* two torrents that are not paused, then a paused one of the same name
TwoCrossSeeds ==
    LET kind(st) == [tags |-> <<>>, completion_on |-> 0, names |-> <<<<"y">>>>, msg |-> <<>>,
                     state |-> st, name |-> <<"n">>]
    IN <<OfKind(1, kind(Uploading)), OfKind(2, kind(Uploading)), OfKind(3, kind(PausedUP))>>

\* one torrent saved in /rr, beside the remote root /r, with or without the tag
OutsideTorrents ==
    {<<[JobTorrent(1, <<"n">>, tags, <<>>, Uploading, TagClock - Hour - 1, <<<<"y">>>>)
           EXCEPT !.save_path = Root(<<<<"r", "r">>>>)]>> : tags \in {<<>>, NoHL}}

\* an instance with every flag set and one of its two roots, or none, not set
RootlessInstances ==
    {JobInstance(1, <<>>, Flags, q, l) :
        <<q, l>> \in {<<None, Some(Root(<<<<"l">>>>))>>, <<Some(Root(<<<<"r">>>>)), None>>,
                      <<Some(<<>>), Some(<<>>)>>}}

Installations ==
    { [instances |-> <<TagInstance(1, f1), TagInstance(2, f2)>>,
       remote |-> <<BusyTorrents, BusyTorrents>>] : f1 \in SUBSET Flags, f2 \in SUBSET Flags }
    \cup { [instances |-> <<JobInstance(1, <<>>, Flags, Some(Root(<<<<"r">>>>)),
                                         Some(Root(<<<<"l">>>>)))>>,
            remote |-> <<ts>>]
            : ts \in KindLists(HardLinkKinds, HardLinkSeconds)
                     \cup KindLists(UnregisteredKinds, UnregisteredSeconds)
                     \cup KindLists(CrossSeedKinds, CrossSeedKinds) }
    \cup { [instances |-> <<TagInstance(1, Flags), TagInstance(2, Flags)>>,
            remote |-> <<TwoCrossSeeds, BusyTorrents>>] }
    \cup { [instances |-> <<inst>>, remote |-> <<BusyTorrents>>] : inst \in RootlessInstances }
    \cup { [instances |-> <<TagInstance(1, Flags)>>, remote |-> <<ts>>] : ts \in OutsideTorrents }

InitJobs ==
    /\ \E i \in Installations : instances = i.instances /\ remote = i.remote
    /\ files = TagFiles
    /\ now = TagClock
    /\ links = <<>>
    /\ calls = <<>> /\ session = <<>> /\ committed = <<>> /\ runs = 0 /\ runLog = <<>>
    /\ notified = <<>>
    /\ sArgs = None /\ sOut = None
    /\ pInst = None /\ pPath = None /\ pOut = None
    /\ PageIdle
    /\ OrphanIdle
    /\ GroupIdle
    /\ SchedIdle
    /\ CollectIdle
    /\ MatchIdle
    /\ LogIdle
    /\ CycleIdle

\* the specification follows the first run after the start, of any one job
FirstRun == runLog = <<>>

NextJobs ==
    \/ FirstRun /\ ApplyRulesJob
    \/ FirstRun /\ TagUnregisteredTorrentsJob
    \/ FirstRun /\ TagTorrentsWithNoHardLinksJob
    \/ FirstRun /\ PauseCrossSeededTorrentsJob

SpecJobs == InitJobs /\ [][NextJobs]_vars

----------------------------------------------------------------------------
(* app.__main__: the BackgroundScheduler and the job it is given.  Time is in *)
(* minutes.  A run of run_all_jobs goes through its tasks one after another   *)
(* in the executor thread that took it.                                       *)

MaxInterval == 2    \* scheduler_interval_minutes
MaxTime == 6        \* minutes the scheduler is followed for

\* the tasks of one cycle, in order
Tasks ==
    <<"apply_rules", "tag_torrents_with_no_hard_links", "tag_unregistered_torrents",
      "pause_cross_seeded_torrents", "detect_orphaned_files">>

\* the run of a job: a call of its function, which goes through the tasks
run_all_jobs(job, at) == [job |-> job, at |-> at, task |-> 1]

\* one job for every task, each on the interval
AddJobPerTask == [k \in DOMAIN Tasks |-> [func |-> Tasks[k], tasks |-> <<Tasks[k]>>]]

\* line 760: scheduler.add_job(func=run_all_jobs, trigger="interval", ...), the
\* only job of the scheduler
AddJob == <<[func |-> "run_all_jobs", tasks |-> Tasks]>>

\* BackgroundScheduler(): max_instances of a job, and the threads of its executor
MaxInstances == 1
MaxWorkers == 10

\* the runs of job j that are executing
InstancesOf(running, j) == {r \in running : r.job = j}

\* the scheduler's thread handles the due jobs in the order of the job store: a
\* due job is submitted to the executor unless max_instances runs of it are
\* executing, then the run is skipped; its next run time moves on by the interval
RECURSIVE ProcessJobs(_, _)
ProcessJobs(sc, j) ==
    IF j > Len(AddJob) THEN sc
    ELSE IF sc.next_run_time[j] > sc.now THEN ProcessJobs(sc, j + 1)
    ELSE LET free == /\ Cardinality(InstancesOf(sc.running, j)) < MaxInstances
                     /\ Cardinality(sc.running) < MaxWorkers
             moved == [sc EXCEPT !.next_run_time[j] = @ + sc.interval_minutes]
         IN ProcessJobs(
                IF free
                THEN [moved EXCEPT !.running = @ \cup {run_all_jobs(j, sc.now)},
                                   !.started = @ \cup {[job |-> j, at |-> sc.now]}]
                ELSE [moved EXCEPT !.skipped = @ \cup {[job |-> j, at |-> sc.now]}],
                j + 1)

\* lines 757-762: interval_minutes from the settings, next_run_time=datetime.now(),
\* scheduler.start()
SchedulerStart(interval_minutes) ==
    [now |-> 0, interval_minutes |-> interval_minutes,
     next_run_time |-> [j \in DOMAIN AddJob |-> 0],
     running |-> {}, started |-> {}, skipped |-> {}]

Due(sc) == \E j \in DOMAIN AddJob : sc.next_run_time[j] <= sc.now

\* the scheduler's thread wakes up at the next run time
Wakeup ==
    /\ sched # None
    /\ Due(Val(sched))
    /\ sched' = Some(ProcessJobs(Val(sched), 1))
    /\ UNCHANGED <<rulesVars, pageVars, pathVars, scanVars, orphanVars, groupVars, tagVars, collectVars,
                   matchVars, logVars, cycleVars>>

\* a task of an executing run returns: the run goes on to its next task, or ends
TaskReturns ==
    /\ sched # None
    /\ \E r \in Val(sched).running :
          sched' = Some([Val(sched) EXCEPT !.running =
                            (@ \ {r}) \cup
                            (IF r.task < Len(AddJob[r.job].tasks)
                             THEN {[r EXCEPT !.task = @ + 1]} ELSE {})])
    /\ UNCHANGED <<rulesVars, pageVars, pathVars, scanVars, orphanVars, groupVars, tagVars, collectVars,
                   matchVars, logVars, cycleVars>>

\* a minute passes, once the scheduler's thread has handled what was due
Minute ==
    /\ sched # None
    /\ ~Due(Val(sched))
    /\ Val(sched).now < MaxTime
    /\ sched' = Some([Val(sched) EXCEPT !.now = @ + 1])
    /\ UNCHANGED <<rulesVars, pageVars, pathVars, scanVars, orphanVars, groupVars, tagVars, collectVars,
                   matchVars, logVars, cycleVars>>

InitSched ==
    /\ \E interval_minutes \in 1..MaxInterval : sched = Some(SchedulerStart(interval_minutes))
    /\ instances = <<>> /\ remote = <<>>
    /\ calls = <<>> /\ session = <<>> /\ committed = <<>> /\ runs = 0 /\ runLog = <<>>
    /\ PageIdle
    /\ PathIdle
    /\ ScanIdle
    /\ OrphanIdle
    /\ GroupIdle
    /\ TagIdle
    /\ CollectIdle
    /\ MatchIdle
    /\ LogIdle
    /\ CycleIdle

NextSched ==
    \/ Wakeup
    \/ TaskReturns
    \/ Minute

SpecSched == InitSched /\ [][NextSched]_vars

----------------------------------------------------------------------------
(* One call of _collect_expected_local_paths: an instance that maps /r to /l   *)
(* holds three torrents, each saved under the remote root or outside it, with  *)
(* one or two files; the listing of at most one of them raises.                *)

CollectKinds ==
    {[save_path |-> sp, two |-> two] : sp \in {Root(<<<<"r">>>>), Root(<<<<"o">>>>)},
                                       two \in BOOLEAN}

\* torrent number hash of kind k: its files are named after it
CollectTorrent(hash, k) ==
    OrphanTorrent(hash, k.save_path,
                  LET name == <<<<"a">>, <<"b">>, <<"c">>>>[hash]
                  IN IF k.two THEN <<name, Cat(<<<<"x">>, name>>)>> ELSE <<name>>)

InitCollect ==
    /\ \E k1, k2, k3 \in CollectKinds, fail \in 0..3,
          group \in {None, Some(Root(<<<<"l">>>>)), Some(Root(<<<<"o">>>>))} :
          cIn = Some([instance |-> OrphanInstance(1, Some(Root(<<<<"r">>>>)),
                                                  Some(Root(<<<<"l">>>>))),
                      torrents |-> <<CollectTorrent(1, k1), CollectTorrent(2, k2),
                                     CollectTorrent(3, k3)>>,
                      files_fail |-> {fail} \ {0},
                      group_mapped_root |-> group])
    /\ cOut = None
    /\ links \in {<<>>, Link(Root(<<<<"l">>, <<"x">>>>), Root(<<<<"m">>>>))}
    /\ pInst = None /\ pPath = None /\ pOut = None
    /\ RulesIdle
    /\ PageIdle
    /\ ScanIdle
    /\ OrphanIdle
    /\ GroupIdle
    /\ TagIdle
    /\ SchedIdle
    /\ MatchIdle
    /\ LogIdle
    /\ CycleIdle

\* the call; get_all_torrents(client) has returned the torrents
CollectExpected ==
    /\ cOut = None
    /\ \E a \in cIn :
          cOut' = Some(CollectExpectedLocalPaths(links, a.instance, a.torrents,
                                                 a.files_fail, a.group_mapped_root))
    /\ UNCHANGED <<cIn, rulesVars, pageVars, pathVars, scanVars, orphanVars, groupVars,
                   tagVars, schedVars, matchVars, logVars, cycleVars>>

NextCollect == CollectExpected

SpecCollect == InitCollect /\ [][NextCollect]_vars

----------------------------------------------------------------------------
(* Cycles of the four jobs that change the remote side.  Every cycle runs *)
(* each job once, in any order, and none of its calls raises; the clock   *)
(* moves on between cycles, the filesystem and the trackers stay as they  *)
(* are.  calls, committed and notified hold what the cycle under way has  *)
(* done; runLog keeps, for every cycle that ended, how many calls it      *)
(* issued and how many ActionLog rows it added.                           *)

MaxCycles == 5      \* cycles followed

CycleSeconds == 60

JobNames == {"apply_rules", "tag_nohardlinks", "tag_unregistered", "pause_cross_seeded"}

NoFails(insts) == [id \in {insts[i].id : i \in DOMAIN insts} |-> NoFail]

NoChange == [at |-> 0, before |-> 0, after |-> 0]

\* one job of a cycle, from the state js the jobs before it left
RunJob(job, fl, lk, clock, insts, delivered, run, js) ==
    IF job = "apply_rules"
    THEN LET r == ApplyRulesJobLoop(insts, 1, [n \in 1..Len(insts) |-> NoFail], run,
                      [remote |-> js.remote, calls |-> js.calls, session |-> js.session,
                       committed |-> js.committed, raised |-> {}, processed |-> <<>>])
         IN [js EXCEPT !.remote = r.remote, !.calls = r.calls, !.session = r.session,
                       !.committed = r.committed]
    ELSE IF job = "tag_nohardlinks"
    THEN TagNoHardLinksJobLoop(fl, lk, NoChange, clock, FilterBy(insts, "tag_nohardlinks"),
                               1, NoFails(insts), delivered, run, js)
    ELSE IF job = "tag_unregistered"
    THEN TagUnregisteredJobLoop(FilterBy(insts, "tag_unregistered_torrents"),
                                1, NoFails(insts), delivered, run, js)
    ELSE PauseCrossSeededJobLoop(FilterBy(insts, "pause_cross_seeded_torrents"),
                                 1, NoFails(insts), delivered, run, js)

\* the job's state at its start: the first job of a cycle starts the records
CycleState ==
    IF pending = JobNames
    THEN [remote |-> remote, calls |-> <<>>, session |-> <<>>, committed |-> <<>>,
          notified |-> <<>>, raised |-> {}, swallowed |-> {}, processed |-> <<>>]
    ELSE JobState

\* a job of the cycle under way runs; the last one ends the cycle
CycleJob(job) ==
    /\ runs < MaxCycles
    /\ job \in pending
    /\ \E delivered \in BOOLEAN :
       \E js \in {RunJob(job, files, links, now, instances, delivered, runs + 1,
                         CycleState)} :
            /\ remote' = js.remote
            /\ calls' = js.calls
            /\ session' = js.session
            /\ committed' = js.committed
            /\ notified' = js.notified
            /\ IF pending = {job}
               THEN /\ runLog' = Append(runLog,
                                     [job |-> "cycle", calls |-> Len(js.calls),
                                      rows |-> Len(SelectSeq(js.committed \o js.session,
                                                      LAMBDA r : "action" \in DOMAIN r))])
                    /\ runs' = runs + 1
                    /\ now' = now + CycleSeconds
                    /\ pending' = JobNames
               ELSE /\ pending' = pending \ {job}
                    /\ UNCHANGED <<runLog, runs, now>>
    /\ UNCHANGED <<instances, files, sArgs, sOut, pageVars, pathVars, orphanVars, groupVars,
                   schedVars, collectVars, matchVars, logVars>>

CycleApplyRules == CycleJob("apply_rules")

CycleTagNoHardLinks == CycleJob("tag_nohardlinks")

CycleTagUnregistered == CycleJob("tag_unregistered")

CyclePauseCrossSeeded == CycleJob("pause_cross_seeded")

\* rule lists on the tags the jobs manage and on the tracker
CycleRuleLists ==
    {<<>>,
     <<Rule("all", "tracker", <<"x">>, Some(2), Some(60), Some(2048), Some(2048))>>,
     <<Rule("hl", "tag", NoHL, Some(3), None, None, None),
       Rule("all", "tracker", <<"x">>, Some(2), Some(60), Some(2048), Some(2048))>>,
     <<Rule("un", "tag", Unregistered, None, Some(30), None, None),
       Rule("hl", "tag", NoHL, Some(3), None, None, None)>>}

\* the two torrents that give every job something to do, then one without a
\* hard link whose hour of grace ends between the first cycle and the second
CycleTorrents ==
    BusyTorrents \o <<JobTorrent(3, <<"g">>, <<>>, <<>>, Uploading,
                                 TagClock - Hour + CycleSeconds \div 2, <<<<"z">>>>)>>

InitCycles ==
    /\ \E rs \in CycleRuleLists, flags \in SUBSET Flags :
          instances = <<JobInstance(1, rs, flags, Some(Root(<<<<"r">>>>)),
                                    Some(Root(<<<<"l">>>>)))>>
    /\ remote = <<CycleTorrents>>
    /\ files = TagFiles
    /\ now = TagClock
    /\ links = <<>>
    /\ calls = <<>> /\ session = <<>> /\ committed = <<>> /\ runs = 0 /\ runLog = <<>>
    /\ notified = <<>>
    /\ sArgs = None /\ sOut = None
    /\ pInst = None /\ pPath = None /\ pOut = None
    /\ PageIdle
    /\ OrphanIdle
    /\ GroupIdle
    /\ SchedIdle
    /\ CollectIdle
    /\ MatchIdle
    /\ LogIdle
    /\ pending = JobNames

NextCycles ==
    \/ CycleApplyRules
    \/ CycleTagNoHardLinks
    \/ CycleTagUnregistered
    \/ CyclePauseCrossSeeded

SpecCycles == InitCycles /\ [][NextCycles]_vars

\* a job of the cycle under way has run: every step of NextCycles is one,
\* and while cycles are followed one is possible
JobRuns == runs < MaxCycles /\ pending' \in SUBSET JobNames /\ pending' # pending

\* the jobs are scheduled at a fixed interval: a job that is due runs
FairCycles == SpecCycles /\ WF_pending(JobRuns)

----------------------------------------------------------------------------
(* log_parser.process_logs_for_instance and log_parser.log_parsing_job *)

MaxLogLines == 2    \* lines of an instance's client log

NotAvailable == <<"n", "/", "a">>

RemovedInLog == <<"Removed torrent (detected in log)">>

\* a line of the client's main log: removed says that 'Removed torrent' is in
\* its message, torrent is what the pattern of line 32 captures in it (None
\* when it finds nothing)
LogLine(id, removed, torrent) ==
    [id |-> id, timestamp |-> 100 + id, removed |-> removed, torrent |-> torrent]

LogLineKinds ==
    {[removed |-> FALSE, torrent |-> None], [removed |-> TRUE, torrent |-> None],
     [removed |-> TRUE, torrent |-> Some(<<"n">>)]}

\* the logs a client can hold: ids count up from 0
ClientLogs ==
    UNION {{[i \in 1..n |-> LogLine(i - 1, ks[i].removed, ks[i].torrent)]
               : ks \in [1..n -> LogLineKinds]} : n \in 0..MaxLogLines}

\* an Instance row as lines 25, 26, 51, 52 and 63 read and write it
LogInstance(id, look) ==
    [id |-> id, name |-> <<"i", ToString(id)>>, look_for_deleted_torrents |-> look,
     last_processed_log_id |-> -1]

\* client.log_main(last_known_id=...): the lines with a greater id
log_main(log, last_known_id) == SelectSeq(log, LAMBDA l : l.id > last_known_id)

\* lines 10-17: the timestamp, formatted
epoch_to_human_readable(epoch_timestamp) == [formatted |-> epoch_timestamp]

\* what can go wrong for one instance in one cycle: get_client returns None,
\* auth_log_in raises (line 69), log_main raises (line 25), or the pass of the
\* loop for line t of the answer raises while it reads the message (k = 1,
\* line 29), in send_notification (k = 2, line 45) or while it reads the id
\* (k = 3, line 49)
NoClient == [t |-> 0, k |-> 1]
AuthRaises == [t |-> 0, k |-> 2]
LogMainRaises == [t |-> 0, k |-> 3]
LogFailChoices == {NoFail, NoClient, AuthRaises, LogMainRaises} \cup [t : 1..MaxLogLines, k : 1..3]

\* the failures of one cycle: at most one instance has one
LogFails(insts) ==
    {f \in [{insts[i].id : i \in DOMAIN insts} -> LogFailChoices] :
        \A a, b \in DOMAIN f : f[a] # NoFail /\ f[b] # NoFail => a = b}

\* lines 37-42
RemovedRow(instance, log, run) ==
    [instance_id |-> instance.id, action |-> RemovedInLog,
     details |-> IF log.torrent = None THEN NotAvailable ELSE Val(log.torrent),
     log_id |-> log.id, run |-> run]

\* line 44
RemovedMessage(instance, log) ==
    <<"-", IF log.torrent = None THEN NotAvailable ELSE Val(log.torrent),
      epoch_to_human_readable(log.timestamp), instance.name>>

\* lines 29-49 for line number idx of the answer
ProcessLogLine(instance, log, idx, fail, delivered, run, st) ==
    IF fail.t = idx /\ fail.k = 1 THEN [st EXCEPT !.raised = TRUE]
    ELSE IF ~log.removed
    THEN IF fail.t = idx /\ fail.k = 3 THEN [st EXCEPT !.raised = TRUE]
         ELSE [st EXCEPT !.last_id = log.id]
    ELSE LET added == [st EXCEPT !.session = Append(@, RemovedRow(instance, log, run))]
             told == [added EXCEPT
                        !.notified = Append(@, [message |-> RemovedMessage(instance, log),
                                                delivered |-> delivered,
                                                instance |-> instance.id,
                                                log_id |-> log.id, run |-> run]),
                        !.session = IF delivered
                                    THEN Append(@, [message |-> RemovedMessage(instance, log),
                                                    run |-> run])
                                    ELSE @]
         IN IF fail.t = idx /\ fail.k = 2 THEN [added EXCEPT !.raised = TRUE]
            ELSE IF fail.t = idx /\ fail.k = 3 THEN [told EXCEPT !.raised = TRUE]
            ELSE [told EXCEPT !.last_id = log.id]

\* lines 28-49: the loop over the answer; an exception leaves it
RECURSIVE ProcessLogLoop(_, _, _, _, _, _, _)
ProcessLogLoop(instance, logs, idx, fail, delivered, run, st) ==
    IF idx > Len(logs) \/ st.raised THEN st
    ELSE ProcessLogLoop(instance, logs, idx + 1, fail, delivered, run,
            ProcessLogLine(instance, logs[idx], idx, fail, delivered, run, st))

\* lines 24-56 for instance number n of the table: the answer of log_main and
\* the loop over it; lines 51-53 store the last id and commit the session
\* when the id moved; the except clause of line 55 logs, and neither commits
\* nor rolls back
process_logs_for_instance(n, log, fail, delivered, run, js) ==
    LET instance == js.instances[n]
        st == ProcessLogLoop(instance, log_main(log, instance.last_processed_log_id), 1,
                  fail, delivered, run,
                  [session |-> js.session, notified |-> js.notified,
                   last_id |-> instance.last_processed_log_id, raised |-> FALSE])
    IN IF fail = LogMainRaises
       THEN [js EXCEPT !.swallowed = @ \cup {instance.id}]
       ELSE IF st.raised
       THEN [js EXCEPT !.session = st.session, !.notified = st.notified,
                       !.swallowed = @ \cup {instance.id}]
       ELSE IF st.last_id # instance.last_processed_log_id
       THEN [js EXCEPT !.instances[n].last_processed_log_id = st.last_id,
                       !.session = <<>>,
                       !.committed = @ \o st.session,
                       !.notified = st.notified]
       ELSE [js EXCEPT !.session = st.session, !.notified = st.notified]

\* lines 64-74 for instance number n of the table and on: line 63 keeps the
\* instances with the flag
RECURSIVE LogParsingJobLoop(_, _, _, _, _)
LogParsingJobLoop(n, fails, delivered, run, js) ==
    IF n > Len(js.instances) THEN js
    ELSE LET instance == js.instances[n] IN
         LogParsingJobLoop(n + 1, fails, delivered, run,
            IF ~instance.look_for_deleted_torrents THEN js
            ELSE IF fails[instance.id] = NoClient THEN js
            ELSE IF fails[instance.id] = AuthRaises
            THEN [js EXCEPT !.raised = @ \cup {instance.id}]
            ELSE process_logs_for_instance(n, clientLog[instance.id], fails[instance.id],
                                           delivered, run, Acquired(js, instance.id)))

\* one cycle of log_parsing_job: the session of its application context
\* starts empty, and what the cycle leaves pending goes with the context
LogParsingJob ==
    /\ runs < MaxRuns
    /\ \E fails \in LogFails(instances), delivered \in BOOLEAN :
       \E js \in {LogParsingJobLoop(1, fails, delivered, runs + 1,
                     [instances |-> instances, session |-> <<>>, committed |-> committed,
                      notified |-> notified, raised |-> {}, swallowed |-> {},
                      processed |-> <<>>])} :
            /\ instances' = js.instances
            /\ session' = js.session
            /\ committed' = js.committed
            /\ notified' = js.notified
            /\ runLog' = Append(runLog,
                            [job |-> "log_parsing", processed |-> js.processed,
                             raised |-> js.raised, swallowed |-> js.swallowed,
                             before |-> [n \in DOMAIN instances |->
                                            instances[n].last_processed_log_id],
                             after |-> [n \in DOMAIN instances |->
                                           js.instances[n].last_processed_log_id],
                             committedBefore |-> Len(committed)])
    /\ runs' = runs + 1
    /\ UNCHANGED <<remote, calls, pageVars, pathVars, scanVars, orphanVars, groupVars,
                   schedVars, collectVars, matchVars, logVars, cycleVars>>

InitLogs ==
    /\ \E l1 \in BOOLEAN, l2 \in BOOLEAN :
          instances = <<LogInstance(1, l1), LogInstance(2, l2)>>
    /\ clientLog \in [1..2 -> ClientLogs]
    /\ remote = <<>> /\ calls = <<>> /\ session = <<>> /\ committed = <<>>
    /\ runs = 0 /\ runLog = <<>>
    /\ notified = <<>>
    /\ PageIdle
    /\ PathIdle
    /\ ScanIdle
    /\ OrphanIdle
    /\ GroupIdle
    /\ SchedIdle
    /\ CollectIdle
    /\ MatchIdle
    /\ CycleIdle

NextLogs == LogParsingJob

SpecLogs == InitLogs /\ [][NextLogs]_vars

----------------------------------------------------------------------------
(* Claims about rule application *)

CallsOf(run, inst, hash) ==
    SelectSeq(calls, LAMBDA c : c.run = run /\ c.instance = inst /\ c.hash = hash)

EntriesOf(run, inst, hash) ==
    SelectSeq(committed, LAMBDA e : e.run = run /\ e.instance_id = inst /\ e.hash = hash)

StripCall(c) == [op |-> c.op, args |-> c.args]

\* the rule the spec has applied to a torrent: the first in order that matches (0: none)
FirstMatching(rules, torrent) ==
    IF \E i \in DOMAIN rules : RuleMatches(rules[i], torrent)
    THEN CHOOSE i \in DOMAIN rules :
            /\ RuleMatches(rules[i], torrent)
            /\ \A j \in 1..(i - 1) : ~RuleMatches(rules[j], torrent)
    ELSE 0

HasLimit(rule) ==
    \/ rule.share_limit_ratio # None
    \/ rule.share_limit_time # None
    \/ rule.max_upload_speed # None
    \/ rule.max_download_speed # None

\* every non-null field of the rule equals the torrent's current value
Conforms(rule, torrent) ==
    /\ \A v \in rule.share_limit_ratio : torrent.ratio_limit = v
    /\ \A v \in rule.share_limit_time : torrent.seeding_time_limit = v
    /\ \A v \in rule.max_upload_speed : torrent.up_limit = v
    /\ \A v \in rule.max_download_speed : torrent.dl_limit = v

CleanPair(r) == r \in 2..runs /\ runLog[r - 1].raised = {} /\ runLog[r].raised = {}

\* C1: two runs of rule application in succession, neither raising, the second
\* seeing the limits the first one set: the second run issues no remote call and
\* commits no ActionLog row; and for every torrent whose first matching rule sets
\* a limit the torrent did not yet conform to, the two runs together issue exactly
\* the calls of one application of that rule and commit exactly one row.
C1_Idempotent ==
    \A r \in 1..runs : CleanPair(r) =>
        \A n \in DOMAIN instances :
            LET inst == instances[n]
                before == runLog[r - 1].before[inst.id]
            IN \A t \in DOMAIN before :
                LET m == FirstMatching(inst.rules, before[t])
                    h == before[t].hash
                IN /\ CallsOf(r, inst.id, h) = <<>>
                   /\ EntriesOf(r, inst.id, h) = <<>>
                   /\ (m # 0 /\ HasLimit(inst.rules[m]) /\ ~Conforms(inst.rules[m], before[t]))
                        => /\ Len(EntriesOf(r - 1, inst.id, h)) = 1
                           /\ [i \in DOMAIN CallsOf(r - 1, inst.id, h) |->
                                  StripCall(CallsOf(r - 1, inst.id, h)[i])]
                              = RuleCalls(inst.rules[m])
                           /\ RuleCalls(inst.rules[m]) # <<>>

\* a second clean run after a first one that applied a rule with an upload limit
C1_Witness ==
    /\ CleanPair(2)
    /\ \E i \in DOMAIN calls : calls[i].run = 1 /\ calls[i].op = "set_upload_limit"
    /\ \E i \in DOMAIN committed : committed[i].run = 1

\* C2: every remote call and every ActionLog row (pending or committed) made for
\* a torrent in a run is made on behalf of the first rule, in the instance's rule
\* order, that matches the torrent; no later matching rule gets a call or a row.
C2_FirstMatchWins ==
    /\ \A i \in DOMAIN calls :
          LET c == calls[i]
              inst == CHOOSE x \in Range(instances) : x.id = c.instance
              before == runLog[c.run].before[c.instance]
          IN \A t \in DOMAIN before : before[t].hash = c.hash =>
                c.rule = FirstMatching(inst.rules, before[t])
    /\ \A i \in DOMAIN committed :
          LET e == committed[i]
              inst == CHOOSE x \in Range(instances) : x.id = e.instance_id
              before == runLog[e.run].before[e.instance_id]
          IN \A t \in DOMAIN before : before[t].hash = e.hash =>
                e.rule = FirstMatching(inst.rules, before[t])

\* a torrent matched by two rules, with calls issued for it
C2_Witness ==
    \E i \in DOMAIN calls :
        LET c == calls[i]
            inst == CHOOSE x \in Range(instances) : x.id = c.instance
            before == runLog[c.run].before[c.instance]
        IN \E t \in DOMAIN before :
              /\ before[t].hash = c.hash
              /\ Cardinality({j \in DOMAIN inst.rules :
                                 RuleMatches(inst.rules[j], before[t])}) >= 2
              /\ \E j \in DOMAIN inst.rules :
                    /\ j > c.rule
                    /\ RuleMatches(inst.rules[j], before[t])
                    /\ ~IsAlreadyApplied(inst.rules[j], before[t])

----------------------------------------------------------------------------
(* Claims about pagination *)

\* C10: when no page request raises, get_all_torrents returns the backend's
\* torrents, each exactly once and in the backend's order, for every backend
\* size, exact multiples of the page size included; 3400 torrents come back as
\* 3400 distinct torrents.
C10_PaginationComplete ==
    \A o \in pgOut : ~o.fellBack =>
        /\ o.result = pgBackend
        /\ Len(o.result) = Len(pgBackend)
        /\ Cardinality(Range(o.result)) = Len(pgBackend)

\* three full pages and one of 400, all fetched
C10_Witness ==
    \E o \in pgOut :
        /\ ~o.fellBack
        /\ Len(pgBackend) = 3 * PageLimit + 400
        /\ Len(o.result) = 3400
        /\ o.requests = 4

----------------------------------------------------------------------------
(* Claims about path translation *)

BothRootsSet == ~NotSet(pInst.qbt_download_dir) /\ ~NotSet(pInst.mapped_download_dir)

\* root's components are the first components of p
SegmentsUnder(p, root) ==
    LET pc == NonEmpty(Split(p, Sep))
        rc == NonEmpty(Split(root, Sep))
    IN Len(rc) <= Len(pc) /\ SubSeq(pc, 1, Len(rc)) = rc

DataX == Root(<<<<"d", "a", "t", "a">>, <<"x">>>>)
DataX2F == Root(<<<<"d", "a", "t", "a">>, <<"x", "2">>, <<"f">>>>)

\* C5: for every instance with both roots set and every relative path x/y, the
\* translation of remoteRoot + "/x/y" is localRoot + "/x/y", canonicalized.
C5_RoundTrip ==
    \A o \in pOut : BothRootsSet =>
        \A rel \in RelPaths :
            pPath = Some(UnderRoot(Val(pInst.qbt_download_dir), rel))
            => o.value = Some(Canon(links, UnderRoot(Val(pInst.mapped_download_dir), rel)))

\* C5 as amended: the round trip holds whenever the canonical form of
\* remoteRoot + "/x/y" is the canonical remote root followed by x/y, that is, when
\* no symbolic link of the local filesystem redirects the path below the root.
C5_RoundTripOnUnredirectedPath ==
    \A o \in pOut : BothRootsSet =>
        \A rel \in RelPaths :
            (/\ pPath = Some(UnderRoot(Val(pInst.qbt_download_dir), rel))
             /\ Canon(links, Val(pPath))
                  = Join2(Canon(links, Val(pInst.qbt_download_dir)), rel))
            => o.value = Some(Canon(links, UnderRoot(Val(pInst.mapped_download_dir), rel)))

\* a path below a remote root that is itself a symbolic link has been translated
C5_Witness ==
    /\ BothRootsSet
    /\ links # <<>>
    /\ \E rel \in RelPaths :
          /\ pPath = Some(UnderRoot(Val(pInst.qbt_download_dir), rel))
          /\ NormPath(Val(pInst.qbt_download_dir)) \in DOMAIN links
          /\ Canon(links, Val(pPath)) = Join2(Canon(links, Val(pInst.qbt_download_dir)), rel)
          /\ pOut = Some(Returned(Some(Canon(links, UnderRoot(Val(pInst.mapped_download_dir), rel)))))

\* C6: a path whose canonical form does not lie, component by component, under
\* the canonical remote root translates to absent; with remote root /data/x the
\* path /data/x2/f translates to absent.
C6_OutsideIsAbsent ==
    \A o \in pOut : (BothRootsSet /\ pPath # None /\ \A v \in pPath : ~HasNul(v)) =>
        /\ ~SegmentsUnder(Canon(links, Val(pPath)),
                          Canon(links, Val(pInst.qbt_download_dir)))
             => o.value = None
        /\ (Val(pInst.qbt_download_dir) = DataX /\ Val(pPath) = DataX2F)
             => o.value = None

\* /data/x2/f has been translated with remote root /data/x
C6_Witness ==
    /\ pOut = Some(Returned(None))
    /\ BothRootsSet
    /\ pInst.qbt_download_dir = Some(DataX)
    /\ pPath = Some(DataX2F)

\* C7: _map_qbt_path_to_local never raises: it returns a local path or absent
\* for every input, and absent whenever either root is unset.
C7_NeverRaises ==
    \A o \in pOut :
        /\ ~o.raised
        /\ \A v \in o.value : IsAbs(v)
        /\ (NotSet(pInst.qbt_download_dir) \/ NotSet(pInst.mapped_download_dir))
             => o.value = None

\* malformed input (no string, or a null character) with both roots set came back absent
C7_Witness ==
    /\ pOut = Some(Returned(None))
    /\ BothRootsSet
    /\ (pPath = None \/ \E v \in pPath : HasNul(v))

----------------------------------------------------------------------------
(* Claims about the orphan scan *)

Reported(path) == \E o \in sOut : \E i \in DOMAIN o.orphans : o.orphans[i] = path

SameInode(a, b) ==
    files[a].st_dev = files[b].st_dev /\ files[a].st_ino = files[b].st_ino

\* the file os.stat finds when the inodes are collected
ExistsAtCollection(path) == path \in DOMAIN files /\ files[path].access # "denied"

\* C3: if an expected file A exists when the inodes are collected and a file B
\* shares A's (device, inode), the scan never reports B, whatever B's path, its
\* age and the ignore patterns.
C3_HardlinkNeverReported ==
    \A a \in sArgs : \A A \in a.expected_paths : \A B \in DOMAIN files :
        (ExistsAtCollection(A) /\ SameInode(A, B)) => ~Reported(B)

\* a hard link to an expected file, under another path below the scanned root
\* and old enough, has been scanned and is not reported
C3_Witness ==
    /\ sOut # None
    /\ \E a \in sArgs :
          /\ a.mapped_root = Root(<<<<"l">>>>)
          /\ a.ignore_patterns = <<>>
          /\ PathXY \notin a.expected_paths
          /\ \E A \in a.expected_paths :
                /\ ExistsAtCollection(A)
                /\ PathXY \in DOMAIN files
                /\ SameInode(A, PathXY)
                /\ files[PathXY].access = "ok"
                /\ now - files[PathXY].st_mtime >= MaxDays * 86400
    /\ ~Reported(PathXY)

\* a file the scan reaches and nothing but its age excludes
NonExpected(a, o, path) ==
    /\ path \in DOMAIN files
    /\ files[path].access = "ok"
    /\ SegmentsUnder(path, a.mapped_root) /\ path # a.mapped_root
    /\ path \notin a.expected_paths
    /\ \A e \in a.expected_paths : ExistsAtCollection(e) => ~SameInode(e, path)
    /\ \A i \in DOMAIN a.ignore_patterns :
          a.ignore_patterns[i].valid => ~Contains(path, a.ignore_patterns[i].text)

\* C8: a non-expected file whose age is minAgeDays*86400 seconds is reported, a
\* file one second younger is not, and a negative minAgeDays behaves as 0.
C8_AgeBoundary ==
    \A a \in sArgs : \A o \in sOut : \A path \in DOMAIN files :
        NonExpected(a, o, path) =>
            LET age == now - files[path].st_mtime
                days == IF a.min_age_days < 0 THEN 0 ELSE a.min_age_days
            IN /\ age = days * 86400 => Reported(path)
               /\ age = days * 86400 - 1 => ~Reported(path)
               /\ Reported(path) <=> age >= days * 86400

\* with minAgeDays = MaxDays a file exactly that old has been reported
C8_Witness ==
    \E a \in sArgs : \E o \in sOut :
        /\ a.min_age_days = MaxDays
        /\ NonExpected(a, o, PathXY)
        /\ now - files[PathXY].st_mtime = MaxDays * 86400
        /\ Reported(PathXY)

----------------------------------------------------------------------------
(* Claims about detect_orphaned_files_job *)

\* the ActionLog rows "Orphaned file detected" of the run, committed or pending
LoggedOrphans ==
    {row.details : row \in {r \in Range(committed) \cup Range(session) :
                               "action" \in DOMAIN r /\ r.action = <<"Orphaned file detected">>}}

\* instance b's client was reached and every listing call on it worked
Contributes(b, faults) ==
    /\ ~NotSet(b.qbt_download_dir) /\ ~NotSet(b.mapped_download_dir)
    /\ \A f \in faults : f.kind \in {"connect", "list", "files"} => f.a # b.id

\* the local paths the torrents of instance b claim
ClaimedBy(b) ==
    UNION { { Val(MapQbtPathToLocal(links, b,
                      Some(Join2(remote[b.id][t].save_path, remote[b.id][t].files[n]))).value)
              : n \in {m \in DOMAIN remote[b.id][t].files :
                         MapQbtPathToLocal(links, b,
                             Some(Join2(remote[b.id][t].save_path,
                                        remote[b.id][t].files[m]))).value # None} }
            : t \in DOMAIN remote[b.id] }

\* C4: when instances A and B both contribute to the global expected paths, a
\* file under A's mapped root that a torrent of B claims is never logged as
\* orphaned by the job.
C4_ClaimedElsewhereNotOrphaned ==
    \A log \in oLog : \A ia, ib \in DOMAIN instances :
        LET A == instances[ia]
            B == instances[ib]
        IN (ia # ib /\ Contributes(A, log.faults) /\ Contributes(B, log.faults)) =>
              \A f \in ClaimedBy(B) :
                  SegmentsUnder(f, Canon(links, Val(A.mapped_download_dir)))
                  => f \notin LoggedOrphans

\* instance 2, whose root lies below instance 1's, claims /l/x/y, an old file that
\* instance 1 does not claim; the job has scanned /l and logged another file
C4_Witness ==
    \E log \in oLog :
        /\ log.faults = {}
        /\ Len(instances) = 2 /\ instances[1].id = 1
        /\ Contributes(instances[1], {}) /\ Contributes(instances[2], {})
        /\ instances[2].mapped_download_dir # instances[1].mapped_download_dir
        /\ PathXY \in ClaimedBy(instances[2]) \ ClaimedBy(instances[1])
        /\ PathXY \in DOMAIN files /\ files[PathXY].st_mtime = 0
        /\ \E g \in DOMAIN log.scanned : log.scanned[g].mapped_root = Root(<<<<"l">>>>)
        /\ LoggedOrphans # {}
        /\ PathXY \notin LoggedOrphans

----------------------------------------------------------------------------
(* Claims about the grouping of orphans *)

\* the key of a path: "/" and its first two segments (its only segment, if one)
BucketKey(path) ==
    LET segs == SelectSeq(Split(path, "/"), LAMBDA x : x # <<>>)
    IN <<"/">> \o JoinSep([i \in 1..Min(2, Len(segs)) |-> segs[i]])

\* the rows of gIn of instance id with key k
Bucket(id, k) == {i \in DOMAIN gIn : gIn[i].instance_id = id /\ BucketKey(gIn[i].file_path) = k}

SizeOrZero(f) == IF f.file_size = None THEN 0 ELSE Val(f.file_size)

RECURSIVE SumSizes(_)
SumSizes(rows) ==
    IF rows = {} THEN 0
    ELSE LET i == CHOOSE j \in rows : TRUE IN SizeOrZero(gIn[i]) + SumSizes(rows \ {i})

\* how often row f occurs in the entry e of the result
Occurrences(e, f) ==
    Cardinality({<<g, i>> \in (DOMAIN e.groups) \X (1..(MaxOrphans + 1)) :
                    i \in DOMAIN e.groups[g].files /\ e.groups[g].files[i] = f})
    + Cardinality({i \in DOMAIN e.ungrouped : e.ungrouped[i] = f})

\* C9: within each instance the orphans are bucketed by the first two path
\* segments; a bucket of two or more files is one group (files sorted by path,
\* total_size the sum of the sizes, a missing size counting 0), a bucket of one
\* file goes to ungrouped, and every input file is in the output exactly once.
\* /d/X/a.mkv, /d/X/b.mkv, /d/Y/c.mkv give one group /d/X of 2 files, c.mkv ungrouped.
C9_Grouping ==
    \A out \in gOut :
        /\ Range(out.ids) = {gIn[i].instance_id : i \in DOMAIN gIn}
        /\ \A id \in Range(out.ids) :
            LET e == out.entry[id]
                keys == {BucketKey(gIn[i].file_path) :
                            i \in {j \in DOMAIN gIn : gIn[j].instance_id = id}}
            IN /\ \A k \in keys :
                    IF Cardinality(Bucket(id, k)) >= 2
                    THEN /\ Cardinality({g \in DOMAIN e.groups : e.groups[g].directory = k}) = 1
                         /\ \A g \in DOMAIN e.groups : e.groups[g].directory = k =>
                               /\ Range(e.groups[g].files) = {gIn[i] : i \in Bucket(id, k)}
                               /\ Len(e.groups[g].files) = Cardinality(Bucket(id, k))
                               /\ \A i, j \in DOMAIN e.groups[g].files : i < j =>
                                     ~StrLess(e.groups[g].files[j].file_path,
                                              e.groups[g].files[i].file_path)
                               /\ e.groups[g].total_size = SumSizes(Bucket(id, k))
                    ELSE /\ \A g \in DOMAIN e.groups : e.groups[g].directory # k
                         /\ \A i \in Bucket(id, k) :
                               \E u \in DOMAIN e.ungrouped : e.ungrouped[u] = gIn[i]
               /\ \A g \in DOMAIN e.groups : e.groups[g].directory \in keys
               /\ \A i \in DOMAIN gIn :
                     Occurrences(e, gIn[i]) = IF gIn[i].instance_id = id THEN 1 ELSE 0
        /\ (/\ Len(gIn) = 3
            /\ {gIn[i].file_path : i \in DOMAIN gIn} = {PathA, PathB, PathC}
            /\ \A i \in DOMAIN gIn : gIn[i].instance_id = 1)
           => LET e == out.entry[1] IN
              /\ Len(e.groups) = 1
              /\ e.groups[1].directory = Root(<<<<"d">>, <<"X">>>>)
              /\ Len(e.groups[1].files) = 2
              /\ Len(e.ungrouped) = 1
              /\ e.ungrouped[1].file_path = PathC

\* the three files of the example, given with b.mkv first, have been grouped:
\* /d/X holds a.mkv before b.mkv and one size is missing
C9_Witness ==
    \E out \in gOut :
        /\ Len(gIn) = 3
        /\ gIn[1].file_path = PathB /\ gIn[2].file_path = PathC /\ gIn[3].file_path = PathA
        /\ \A i \in DOMAIN gIn : gIn[i].instance_id = 1
        /\ gIn[1].file_size = None /\ gIn[3].file_size = Some(3)
        /\ out.entry[1].groups[1].files = <<gIn[3], gIn[1]>>
        /\ out.entry[1].groups[1].total_size = 3
        /\ out.entry[1].ungrouped = <<gIn[2]>>

----------------------------------------------------------------------------
(* Claims about the per-instance jobs *)

\* the ActionLog rows among rows
ActionLogRows(rows) == SelectSeq(rows, LAMBDA r : "action" \in DOMAIN r)

\* the ActionLog rows of a run for a torrent of an instance
RowsOf(rows, run, id, hash) ==
    SelectSeq(ActionLogRows(rows),
              LAMBDA r : r.run = run /\ r.instance_id = id /\ r.hash = hash)

\* the instances a job is for
JobInstances(job) ==
    IF job = "apply_rules" THEN instances
    ELSE IF job = "tag_unregistered" THEN FilterBy(instances, "tag_unregistered_torrents")
    ELSE IF job = "tag_nohardlinks" THEN FilterBy(instances, "tag_nohardlinks")
    ELSE FilterBy(instances, "pause_cross_seeded_torrents")

Ids(insts) == [i \in DOMAIN insts |-> insts[i].id]

\* the torrent is one the job has something to do for
NeedsWork(job, inst, torrent) ==
    IF job = "apply_rules"
    THEN LET m == FirstMatching(inst.rules, torrent)
         IN m # 0 /\ HasLimit(inst.rules[m]) /\ ~Conforms(inst.rules[m], torrent)
    ELSE (OffendingMsg(torrent) # None) # HasTag(torrent, Unregistered)

\* C11: in a run of apply_rules_job or of tag_unregistered_torrents_job every
\* instance of the job is processed, also after an instance whose processing
\* raised; of an instance whose processing raised, no ActionLog row of the run
\* is committed or left pending; of every other instance, before or after it,
\* one row per torrent that needed a change is committed, and stays so.
C11_PerInstanceTransaction ==
    \A n \in DOMAIN runLog :
        LET e == runLog[n]
            insts == JobInstances(e.job)
        IN e.job \in {"apply_rules", "tag_unregistered"} =>
            /\ e.processed = Ids(insts)
            /\ \A i \in DOMAIN insts :
                  LET id == insts[i].id
                  IN \A t \in DOMAIN e.before[id] :
                        LET h == e.before[id][t].hash
                        IN /\ RowsOf(session, n, id, h) = <<>>
                           /\ IF id \in e.raised
                              THEN RowsOf(committed, n, id, h) = <<>>
                              ELSE NeedsWork(e.job, insts[i], e.before[id][t])
                                     => Len(RowsOf(committed, n, id, h)) = 1

\* the unregistered job raised for the first instance after the tag of its first
\* torrent was removed, and committed rows for the second instance
C11_Witness ==
    \E n \in DOMAIN runLog :
        /\ runLog[n].job = "tag_unregistered"
        /\ runLog[n].raised = {1}
        /\ runLog[n].processed = <<1, 2>>
        /\ \E c \in DOMAIN calls :
              calls[c].run = n /\ calls[c].instance = 1 /\ calls[c].op = "set_share_limits"
        /\ \E r \in DOMAIN committed : committed[r].run = n /\ committed[r].instance_id = 2

\* the calls of a run for a torrent are those of one full application of the rule
FullyApplied(run, inst, torrent) ==
    [i \in DOMAIN CallsOf(run, inst.id, torrent.hash) |->
        StripCall(CallsOf(run, inst.id, torrent.hash)[i])]
    = RuleCalls(inst.rules[FirstMatching(inst.rules, torrent)])

\* the torrents of the snapshot a raising run of the instance stopped at: the
\* first that needed an application and did not get all its calls
StoppedAt(run, inst) ==
    LET before == runLog[run].before[inst.id]
        cut == {t \in DOMAIN before : /\ NeedsWork("apply_rules", inst, before[t])
                                      /\ ~FullyApplied(run, inst, before[t])}
    IN CHOOSE t \in cut : \A u \in cut : t <= u

\* C12: when a remote call raises while a rule is applied to a torrent, every
\* torrent after it in the instance's batch is still evaluated in that run: one
\* that matches a rule it does not conform to gets that rule's calls.
C12_LaterTorrentsEvaluated ==
    \A n \in DOMAIN runLog : runLog[n].job = "apply_rules" =>
        \A i \in runLog[n].raised :
            LET inst == instances[i]
                before == runLog[n].before[inst.id]
            IN \A t \in DOMAIN before :
                  (t > StoppedAt(n, inst) /\ NeedsWork("apply_rules", inst, before[t]))
                     => CallsOf(n, inst.id, before[t].hash) # <<>>

----------------------------------------------------------------------------
(* Claims about the expected paths of the orphan job *)

\* the remote paths of the files of instance b's torrents
RemotePaths(b) ==
    UNION { {Join2(remote[b.id][t].save_path, remote[b.id][t].files[n])
                : n \in DOMAIN remote[b.id][t].files}
            : t \in DOMAIN remote[b.id] }

Translated(b, qbt_full_path) == MapQbtPathToLocal(links, b, Some(qbt_full_path)).value

\* the entries the translations of instance b's remote paths give
MappedEntries(b) ==
    {RealPath(links, Val(Translated(b, q))) : q \in {x \in RemotePaths(b) : Translated(b, x) # None}}

\* the canonical forms of the remote paths of instance b that no translation maps
UnmappedEntries(b) ==
    {Canon(links, q) : q \in {x \in RemotePaths(b) : Translated(b, x) = None /\ ~HasNul(x)}}

ScanEnabled == \E stg \in settings : stg.orphaned_scan_enabled

----------------------------------------------------------------------------
(* Claims about the files the orphan job scans *)

\* C14: no step of detect_orphaned_files_job (and of _find_orphaned_files in
\* it) deletes, renames or modifies a file: the regular files and the symbolic
\* links of the local filesystem, with their stat fields, are after every run
\* what they were before it.
C14_ScanIsReadOnly == [][files' = files /\ links' = links]_vars

\* a run has reported an orphan, and the file is on disk as it was
C14_Witness ==
    \E log \in oLog : \E g \in DOMAIN log.scanned :
        /\ log.scanned[g].orphaned # <<>>
        /\ \A i \in DOMAIN log.scanned[g].orphaned :
              log.scanned[g].orphaned[i] \in DOMAIN files
        /\ LoggedOrphans # {}

\* the feature flag of a job (rule application has none)
FlagOf(job) ==
    IF job = "tag_unregistered" THEN "tag_unregistered_torrents"
    ELSE IF job = "tag_nohardlinks" THEN "tag_nohardlinks"
    ELSE "pause_cross_seeded_torrents"

\* the run touched the instance: a remote call, a log row pending or committed,
\* or a notification
Touched(run, id) ==
    \/ \E i \in DOMAIN calls : calls[i].run = run /\ calls[i].instance = id
    \/ \E r \in Range(ActionLogRows(session)) \cup Range(ActionLogRows(committed)) :
          r.run = run /\ r.instance_id = id
    \/ \E i \in DOMAIN notified : notified[i].run = run /\ notified[i].instance = id

\* C15: a run of the hard-link tagging, unregistered tagging or cross-seed pause
\* job acquires a client and fetches the torrents for exactly the instances
\* whose flag of that job is set, in query order, and issues no call, writes no
\* log row and sends no notification for an instance whose flag is not set; a
\* run of the rule-application job processes every instance.
C15_FilteredByFlag ==
    \A n \in DOMAIN runLog :
        LET e == runLog[n]
        IN IF e.job = "apply_rules"
           THEN e.processed = Ids(instances)
           ELSE /\ e.processed = Ids(SelectSeq(instances, LAMBDA i : i[FlagOf(e.job)]))
                /\ \A i \in DOMAIN instances :
                      ~instances[i][FlagOf(e.job)] => ~Touched(n, instances[i].id)

\* a run of the hard-link job on two instances with the same torrents, the
\* first with the flag off: only the second is processed and gets calls
C15_Witness ==
    \E n \in DOMAIN runLog :
        /\ runLog[n].job = "tag_nohardlinks"
        /\ Len(instances) = 2
        /\ ~instances[1].tag_nohardlinks /\ instances[2].tag_nohardlinks
        /\ remote[1] = runLog[n].before[1]
        /\ runLog[n].before[1] = runLog[n].before[2]
        /\ runLog[n].processed = <<2>>
        /\ Touched(n, 2)

----------------------------------------------------------------------------
(* Claims about the roots the orphan job scans *)

\* the canonical local root of an instance
CanonicalRoot(inst) == Canon(links, Val(inst.mapped_download_dir))

\* the rows "Orphaned file detected", committed or pending, as (owner, path)
OrphanAttributions ==
    {<<r.instance_id, r.details>> :
        r \in {x \in Range(committed) \cup Range(session) :
                  "action" \in DOMAIN x /\ x.action = <<"Orphaned file detected">>}}

----------------------------------------------------------------------------
(* Claims about the hard-link tag *)

\* the instances of a run of a tagging job whose function gets to its loop
LoopInstances(job) ==
    SelectSeq(JobInstances(job),
              LAMBDA i : job = "tag_nohardlinks"
                            => ~NotSet(i.qbt_download_dir) /\ ~NotSet(i.mapped_download_dir))

\* the tagging and share-limit calls of a run for a torrent, without the ghost fields
PlainCalls(run, id, hash) ==
    [k \in DOMAIN CallsOf(run, id, hash) |-> StripCall(CallsOf(run, id, hash)[k])]

\* the torrent of the instance as qBittorrent holds it now
Now(id, hash) == CHOOSE t \in Range(remote[id]) : t.hash = hash

\* the notifications of a run for a torrent
NotificationsOf(run, id, hash) ==
    SelectSeq(notified, LAMBDA m : m.run = run /\ m.instance = id /\ m.hash = hash)

TaggedNoHL(run, id, hash) ==
    \E k \in DOMAIN CallsOf(run, id, hash) :
        StripCall(CallsOf(run, id, hash)[k]) = [op |-> "add_tags", args |-> <<NoHL>>]

\* the torrent completed more than an hour before the instant clock
CompletedOverAnHourAgo(clock, torrent) ==
    torrent.completion_on > 0 /\ clock - torrent.completion_on > Hour

\* C18: in a cycle of tag_torrents_with_no_hard_links a torrent without a
\* hard-linked file and without the tag noHL is tagged only if it completed more
\* than one hour before the cycle; the tagging writes one ActionLog row and
\* sends one notification, and no notification is sent for a torrent that was
\* not tagged in the cycle.
C18_TaggedOnlyAfterTheHour ==
    \A n \in DOMAIN runLog :
        LET e == runLog[n]
            insts == LoopInstances(e.job)
        IN e.job = "tag_nohardlinks" =>
            \A i \in DOMAIN insts :
                LET id == insts[i].id
                IN \A t \in DOMAIN e.before[id] :
                      LET torrent == e.before[id][t]
                          h == torrent.hash
                      IN /\ TaggedNoHL(n, id, h) =>
                               /\ ~HasHardLink(files, links, insts[i], torrent)
                               /\ ~HasTag(torrent, NoHL)
                               /\ CompletedOverAnHourAgo(now, torrent)
                               /\ Len(RowsOf(committed, n, id, h)) = 1
                               /\ Len(NotificationsOf(n, id, h)) = 1
                         /\ ~TaggedNoHL(n, id, h) => NotificationsOf(n, id, h) = <<>>

----------------------------------------------------------------------------
(* Claims about the unregistered tag *)

\* two characters are the same letter, whatever their case
SameLetter(a, b) == Lower(<<a>>) = Lower(<<b>>)

\* phrase occurs in msg, case ignored
OccursIgnoringCase(phrase, msg) ==
    \E o \in 0..(Len(msg) - Len(phrase)) :
        \A k \in DOMAIN phrase : SameLetter(msg[o + k], phrase[k])

\* a tracker of the torrent reports one of the phrases
UnregisteredByStatus(torrent) ==
    \E j \in DOMAIN torrent.trackers, k \in DOMAIN UNREGISTERED_STATUS_SUBSTRINGS :
        OccursIgnoringCase(UNREGISTERED_STATUS_SUBSTRINGS[k], torrent.trackers[j].msg)

\* C19: in a cycle of tag_unregistered_torrents_for_instance that raises
\* nothing, a torrent one of whose tracker messages contains one of the six
\* phrases, case ignored, gets add_tags(unregistered) if it does not bear the
\* tag; any other torrent that bears the tag gets remove_tags(unregistered) and
\* then set_share_limits(-1, -1, -1); no torrent gets any other call; after the
\* cycle a torrent bears the tag exactly if a tracker reported a phrase,
\* whatever its completion time.
C19_TagMirrorsStatus ==
    /\ Len(UNREGISTERED_STATUS_SUBSTRINGS) = 6
    /\ \A n \in DOMAIN runLog :
        LET e == runLog[n]
            insts == JobInstances(e.job)
        IN e.job = "tag_unregistered" =>
            \A i \in DOMAIN insts :
                LET id == insts[i].id
                IN id \notin e.raised =>
                   \A t \in DOMAIN e.before[id] :
                      LET torrent == e.before[id][t]
                          unregistered == UnregisteredByStatus(torrent)
                          tagged == HasTag(torrent, Unregistered)
                      IN /\ PlainCalls(n, id, torrent.hash)
                              = IF unregistered /\ ~tagged
                                THEN <<[op |-> "add_tags", args |-> <<Unregistered>>]>>
                                ELSE IF ~unregistered /\ tagged
                                THEN <<[op |-> "remove_tags", args |-> <<Unregistered>>],
                                       [op |-> "set_share_limits",
                                        args |-> <<GlobalLimit, GlobalLimit, GlobalLimit>>]>>
                                ELSE <<>>
                         /\ HasTag(Now(id, torrent.hash), Unregistered) <=> unregistered

\* a cycle over an untagged torrent whose tracker reports a phrase in other
\* case, which got the tag, and a tagged torrent whose tracker reports nothing,
\* which lost it
C19_Witness ==
    \E n \in DOMAIN runLog :
        /\ runLog[n].job = "tag_unregistered"
        /\ runLog[n].raised = {}
        /\ Len(runLog[n].before[1]) = 2
        /\ LET first == runLog[n].before[1][1]
               second == runLog[n].before[1][2]
           IN /\ UnregisteredByStatus(first) /\ ~HasTag(first, Unregistered)
              /\ \A k \in DOMAIN UNREGISTERED_STATUS_SUBSTRINGS :
                    ~Contains(first.trackers[1].msg, UNREGISTERED_STATUS_SUBSTRINGS[k])
              /\ ~UnregisteredByStatus(second) /\ HasTag(second, Unregistered)
              /\ Len(CallsOf(n, 1, first.hash)) = 1
              /\ Len(CallsOf(n, 1, second.hash)) = 2
              /\ HasTag(remote[1][1], Unregistered)
              /\ ~HasTag(remote[1][2], Unregistered)

----------------------------------------------------------------------------
(* Claims about the cross-seed pause *)

\* the torrent is not paused and a paused torrent of the snapshot has its name
SharesNameWithPaused(snapshot, torrent) ==
    /\ ~IsPaused(torrent)
    /\ \E u \in DOMAIN snapshot :
          IsPaused(snapshot[u]) /\ snapshot[u].name = torrent.name

\* C20: in a run of pause_cross_seeded_torrents_for_instance over a snapshot,
\* a torrent gets a call only if it is not paused and has the name of a paused
\* torrent of the snapshot, the call is one pause, and with it goes exactly one
\* ActionLog row 'Paused cross-seeded torrent'; a run that raises nothing
\* pauses every such torrent and commits the row.
C20_PausesExactlyCrossSeeds ==
    \A n \in DOMAIN runLog :
        LET e == runLog[n]
            insts == JobInstances(e.job)
        IN e.job = "pause_cross_seeded" =>
            \A i \in DOMAIN insts :
                LET id == insts[i].id
                IN \A t \in DOMAIN e.before[id] :
                      LET torrent == e.before[id][t]
                          cs == PlainCalls(n, id, torrent.hash)
                          rows == RowsOf(committed \o session, n, id, torrent.hash)
                      IN /\ cs # <<>> =>
                               /\ SharesNameWithPaused(e.before[id], torrent)
                               /\ cs = <<[op |-> "pause", args |-> <<>>]>>
                         /\ Len(rows) = Len(cs)
                         /\ \A r \in DOMAIN rows :
                               rows[r].action = <<"Paused cross-seeded torrent">>
                         /\ (SharesNameWithPaused(e.before[id], torrent)
                               /\ id \notin e.swallowed) =>
                               /\ Len(cs) = 1
                               /\ Len(RowsOf(committed, n, id, torrent.hash)) = 1
                               /\ IsPaused(Now(id, torrent.hash))

\* a run over a torrent that is not paused followed by a paused one of the same
\* name: the first was paused, the second got no call
C20_Witness ==
    \E n \in DOMAIN runLog :
        /\ runLog[n].job = "pause_cross_seeded"
        /\ runLog[n].swallowed = {}
        /\ Len(runLog[n].before[1]) = 2
        /\ ~IsPaused(runLog[n].before[1][1])
        /\ IsPaused(runLog[n].before[1][2])
        /\ runLog[n].before[1][1].name = runLog[n].before[1][2].name
        /\ Len(CallsOf(n, 1, 1)) = 1
        /\ CallsOf(n, 1, 2) = <<>>
        /\ Len(RowsOf(committed, n, 1, 1)) = 1
        /\ IsPaused(remote[1][1])

----------------------------------------------------------------------------
(* Claims about the dispatch of the jobs *)

\* the instants the trigger fired at so far
FireTimes(sc) == {t \in 0..sc.now : t % sc.interval_minutes = 0 /\ t < sc.next_run_time[1]}

----------------------------------------------------------------------------
(* Claims about the records of the orphan job *)

\* the OrphanedFile rows among rows
OrphanedFileRows(rows) == SelectSeq(rows, LAMBDA r : "file_path" \in DOMAIN r)

\* C22: after a run of detect_orphaned_files_job every file a scan of the run
\* reported, in a group whose transaction was committed, has a committed
\* OrphanedFile row with its path and the owning instance.
C22_ReportedFilesAreRecorded ==
    \A log \in oLog :
        \A g \in DOMAIN log.scanned :
            ~log.scanned[g].raised =>
                \A p \in Range(log.scanned[g].orphaned) :
                    \E r \in Range(OrphanedFileRows(committed)) :
                        r.file_path = p /\ r.instance_id = log.scanned[g].owner

----------------------------------------------------------------------------
(* Claims about the result of a scan *)

\* a name the walk of root comes to: below root, through no symbolic link, and
\* itself no link to a directory
WalkedName(e, root) ==
    /\ e \in DOMAIN files \cup DOMAIN links
    /\ e # root /\ SegmentsUnder(e, root)
    /\ \A d \in Ancestors(e) : (SegmentsUnder(d, root) /\ d # root) => d \notin DOMAIN links
    /\ e \in DOMAIN links => Canon(links, e) \notin Dirs(files, links)

\* the canonical path is one the scan has to report
ToReport(a, o, p) ==
    /\ \A i \in DOMAIN a.ignore_patterns :
          a.ignore_patterns[i].valid => ~Contains(p, a.ignore_patterns[i].text)
    /\ p \notin a.expected_paths
    /\ p \in DOMAIN files /\ files[p].access = "ok"
    /\ <<files[p].st_dev, files[p].st_ino>> \notin o.expected_inodes
    /\ now - files[p].st_mtime >= (IF a.min_age_days < 0 THEN 0 ELSE a.min_age_days) * 86400

\* C23: _find_orphaned_files returns the canonical paths of exactly the names
\* below the canonical root that match no compiled ignore pattern, are not in
\* expected_paths, whose (device, inode) is not in expected_inodes and whose age
\* is at least the threshold; a file that is gone or unreadable when the scan
\* comes to it is left out, and the files after it are still decided.
C23_ScanResult ==
    \A a \in sArgs : \A o \in sOut :
        Range(o.orphans) =
            IF Canon(links, a.mapped_root) \notin Dirs(files, links) THEN {}
            ELSE {p \in {Canon(links, e) :
                            e \in {n \in DOMAIN files \cup DOMAIN links :
                                      WalkedName(n, Canon(links, a.mapped_root))}} :
                     ToReport(a, o, p)}

\* a scan whose first file vanished after the walk listed it and whose second
\* file is reported
C23_Witness ==
    /\ sOut # None
    /\ {PathXY, PathZY} \subseteq DOMAIN files
    /\ files[PathXY].access = "vanishing"
    /\ ~Reported(PathXY)
    /\ Reported(PathZY)


\* the patterns of the list that compile
ValidPatterns(pats) == SelectSeq(pats, LAMBDA p : p.valid)

\* C24: a scan whose list of ignore patterns holds patterns that do not compile
\* returns, and returns what the same scan returns with those patterns taken
\* out of the list: the patterns after an invalid one still apply.
C24_InvalidPatternSkipped ==
    \A a \in sArgs : \A o \in sOut :
        (\E i \in DOMAIN a.ignore_patterns : ~a.ignore_patterns[i].valid) =>
            o.orphans = FindOrphanedFiles(files, links, now, a.mapped_root, a.expected_paths,
                                          o.expected_inodes, a.min_age_days,
                                          ValidPatterns(a.ignore_patterns))

\* a scan with an invalid pattern followed by a valid one: the file the valid
\* pattern matches is not reported although nothing else excludes it
C24_Witness ==
    \E a \in sArgs : \E o \in sOut :
        /\ Len(a.ignore_patterns) = 2
        /\ ~a.ignore_patterns[1].valid /\ a.ignore_patterns[2].valid
        /\ a.mapped_root = Root(<<<<"l">>>>)
        /\ PathXY \in DOMAIN files /\ files[PathXY].access = "ok"
        /\ Contains(PathXY, a.ignore_patterns[2].text)
        /\ PathXY \notin a.expected_paths
        /\ <<files[PathXY].st_dev, files[PathXY].st_ino>> \notin o.expected_inodes
        /\ now - files[PathXY].st_mtime >= MinAgeSeconds(a.min_age_days)
        /\ ~Reported(PathXY)

----------------------------------------------------------------------------
(* Claims about the enumeration of the expected paths *)

\* the expected paths of one torrent whose listing works
PathsOfTorrent(a, torrent) ==
    ExpectedOfFiles(links, a.instance, torrent, 1,
                    IF NotSet(a.group_mapped_root) THEN None
                    ELSE Some(Canon(links, Val(a.group_mapped_root))),
                    {})

\* C25: _collect_expected_local_paths returns, and returns the expected paths
\* of every torrent whose file listing did not raise, those before and those
\* after a torrent whose listing raised, and nothing else.
C25_PerTorrentIsolation ==
    \A a \in cIn : \A out \in cOut :
        out = UNION {PathsOfTorrent(a, a.torrents[t]) :
                        t \in {u \in DOMAIN a.torrents : a.torrents[u].hash \notin a.files_fail}}

\* the listing of the second of three torrents raised: paths of the first and
\* of the third are in the result, none of the second
C25_Witness ==
    \E a \in cIn : \E out \in cOut :
        /\ a.files_fail = {2}
        /\ a.group_mapped_root = None
        /\ PathsOfTorrent(a, a.torrents[1]) # {} /\ PathsOfTorrent(a, a.torrents[1]) \subseteq out
        /\ PathsOfTorrent(a, a.torrents[3]) # {} /\ PathsOfTorrent(a, a.torrents[3]) \subseteq out
        /\ PathsOfTorrent(a, a.torrents[2]) # {}
        /\ PathsOfTorrent(a, a.torrents[2]) \cap out = {}

----------------------------------------------------------------------------
(* Claims about the matching of a rule *)

\* the pieces of s between its commas, empty pieces included
CommaPieces(s) ==
    {SubSeq(s, i, j) : <<i, j>> \in
        {ij \in (1..(Len(s) + 1)) \X (0..Len(s)) :
            /\ ij[1] <= ij[2] + 1
            /\ \A k \in ij[1]..ij[2] : s[k] # ","
            /\ ij[1] = 1 \/ s[ij[1] - 1] = ","
            /\ ij[2] = Len(s) \/ s[ij[2] + 1] = ","}}

\* v without the blanks around it
Trimmed(v) ==
    LET solid == {k \in DOMAIN v : v[k] # " "} IN
    IF solid = {} THEN <<>>
    ELSE SubSeq(v, CHOOSE k \in solid : \A l \in solid : k <= l,
                   CHOOSE k \in solid : \A l \in solid : k >= l)

\* the accepted values of a comma-separated string
Accepted(s) == {Trimmed(v) : v \in CommaPieces(s)} \ {<<>>}

IsPartOf(v, url) == \E i, j \in DOMAIN url : SubSeq(url, i, j) = v

\* C26: "matched" is true exactly when the rule is a tag rule and one of the
\* trimmed, non-empty, comma-separated values of its condition is, letter for
\* letter, one of the trimmed tags of the torrent, or the rule is a tracker
\* rule and one of those values is a part of the URL of one of the torrent's
\* trackers; a rule of any other condition type is not matched.
C26_MatchingPredicate ==
    \A a \in mIn : \A matched \in mOut :
        matched <=>
            \/ /\ a.rule.condition_type = "tag"
               /\ Accepted(a.rule.condition_value) \cap Accepted(a.torrent.tags) # {}
            \/ /\ a.rule.condition_type = "tracker"
               /\ \E v \in Accepted(a.rule.condition_value) :
                      \E t \in Range(a.torrent.trackers) : IsPartOf(v, t.url)

\* a tag rule with two values matched a torrent whose tag, once trimmed, is the
\* second of them and differs from the first by case only
C26_Witness ==
    \E a \in mIn :
        /\ mOut = Some(TRUE)
        /\ a.rule.condition_type = "tag"
        /\ a.rule.condition_value = <<"A", ",", "a">>
        /\ a.torrent.tags = <<" ", "a">>

----------------------------------------------------------------------------
(* Claims about one application of a rule *)

\* the calls of this operation among those of a run for a torrent
CallsNamed(run, id, hash, op) == SelectSeq(PlainCalls(run, id, hash), LAMBDA c : c.op = op)

\* the value of a field, or the sentinel that leaves the torrent's value alone
ValueOrInherit(field) == IF field = None THEN -2 ELSE CHOOSE v \in field : TRUE

\* the labels the details of a row give to the fields the rule sets
LabelsOf(rule) ==
    {l \in {"Share Ratio", "Seeding Time", "Up", "Down"} :
        \/ l = "Share Ratio" /\ rule.share_limit_ratio # None
        \/ l = "Seeding Time" /\ rule.share_limit_time # None
        \/ l = "Up" /\ rule.max_upload_speed # None
        \/ l = "Down" /\ rule.max_download_speed # None}

\* C27: in a run in which no call raises for the instance, for a torrent whose
\* first matching rule it does not conform to: the share limits are set by one
\* call when the rule sets the ratio or the seeding time, with -2 for the one of
\* the two it does not set, and by none otherwise; the upload limit and the
\* download limit are each set by one call when the rule sets them and by none
\* otherwise; and one ActionLog row is written, whose details name each field
\* the rule sets once and no other.
C27_OneApplication ==
    \A r \in 1..runs : \A n \in DOMAIN instances :
        LET inst == instances[n]
            before == runLog[r].before[inst.id]
        IN inst.id \notin runLog[r].raised =>
           \A t \in DOMAIN before :
             LET m == FirstMatching(inst.rules, before[t])
                 h == before[t].hash
             IN (m # 0 /\ ~Conforms(inst.rules[m], before[t])) =>
                LET rule == inst.rules[m]
                    share == CallsNamed(r, inst.id, h, "set_share_limits")
                    up == CallsNamed(r, inst.id, h, "set_upload_limit")
                    down == CallsNamed(r, inst.id, h, "set_download_limit")
                    rows == EntriesOf(r, inst.id, h)
                IN /\ Len(share) = IF rule.share_limit_ratio # None \/ rule.share_limit_time # None
                                   THEN 1 ELSE 0
                   /\ \A k \in DOMAIN share :
                         /\ share[k].args[1] = ValueOrInherit(rule.share_limit_ratio)
                         /\ share[k].args[2] = ValueOrInherit(rule.share_limit_time)
                   /\ Len(up) = IF rule.max_upload_speed # None THEN 1 ELSE 0
                   /\ \A k \in DOMAIN up : up[k].args = <<ValueOrInherit(rule.max_upload_speed)>>
                   /\ Len(down) = IF rule.max_download_speed # None THEN 1 ELSE 0
                   /\ \A k \in DOMAIN down :
                         down[k].args = <<ValueOrInherit(rule.max_download_speed)>>
                   /\ Len(share) + Len(up) + Len(down) = Len(PlainCalls(r, inst.id, h))
                   /\ Len(rows) = 1
                   /\ \A k \in DOMAIN rows :
                         /\ {d[1] : d \in Range(rows[k].details)} = LabelsOf(rule)
                         /\ Len(rows[k].details) = Cardinality(LabelsOf(rule))

\* a rule that sets the seeding time and the upload limit but not the ratio was
\* applied: one share-limit call carrying -2 for the ratio, one upload call, no
\* download call, one row
C27_Witness ==
    \E r \in 1..runs : \E n \in DOMAIN instances :
      \E t \in DOMAIN runLog[r].before[instances[n].id] :
        LET inst == instances[n]
            torrent == runLog[r].before[inst.id][t]
            m == FirstMatching(inst.rules, torrent)
        IN /\ inst.id \notin runLog[r].raised
           /\ m # 0
           /\ inst.rules[m].share_limit_ratio = None
           /\ inst.rules[m].share_limit_time # None
           /\ inst.rules[m].max_upload_speed # None
           /\ ~Conforms(inst.rules[m], torrent)
           /\ Len(CallsOf(r, inst.id, torrent.hash)) = 2
           /\ CallsOf(r, inst.id, torrent.hash)[1].args[1] = -2
           /\ Len(EntriesOf(r, inst.id, torrent.hash)) = 1

----------------------------------------------------------------------------
(* Claims about the pending rows of an instance whose processing fails *)

\* the committed ActionLog rows of a run for an instance
CommittedOf(run, id) ==
    SelectSeq(ActionLogRows(committed), LAMBDA r : r.run = run /\ r.instance_id = id)

\* C28: when a file listing or a remote call raises during the hard-link
\* tagging of an instance, no ActionLog row added for that instance in the run
\* is committed.
C28_HardLinkRowsRolledBack ==
    \A r \in 1..runs :
        runLog[r].job = "tag_nohardlinks" =>
            \A id \in runLog[r].swallowed \cup runLog[r].raised : CommittedOf(r, id) = <<>>


\* the rows of either table that a run of the cross-seed job added for an
\* instance: a TelegramMessage row names the instance in its message
AddedFor(rows, run, id) ==
    SelectSeq(rows, LAMBDA r : r.run = run /\ (IF "action" \in DOMAIN r
                                               THEN r.instance_id = id
                                               ELSE r.message[2] = id))

\* C29: when a pause raises during the cross-seed pass of an instance, the
\* ActionLog and TelegramMessage rows the run had added for that instance are
\* not among the committed rows, whatever instances the job processes after it.
C29_CrossSeedRowsRolledBack ==
    \A r \in 1..runs :
        runLog[r].job = "pause_cross_seeded" =>
            \A id \in runLog[r].swallowed \cup runLog[r].raised :
                AddedFor(committed, r, id) = <<>>

----------------------------------------------------------------------------
(* Claims about instances without a path mapping *)

Rootless(inst) == NotSet(inst.qbt_download_dir) \/ NotSet(inst.mapped_download_dir)

\* C30: for an instance with one of its two roots not set, a run of the
\* hard-link tagging job or of the unregistered tagging job issues no remote
\* call, adds no ActionLog row, sends no notification and raises nothing.
C30_NoOpWithoutRoots ==
    \A r \in 1..runs :
        runLog[r].job \in {"tag_nohardlinks", "tag_unregistered"} =>
            \A n \in DOMAIN instances :
                LET id == instances[n].id IN
                Rootless(instances[n]) =>
                    /\ \A k \in DOMAIN calls : ~(calls[k].run = r /\ calls[k].instance = id)
                    /\ \A rows \in {session, committed} :
                          \A k \in DOMAIN ActionLogRows(rows) :
                              ~(ActionLogRows(rows)[k].run = r
                                /\ ActionLogRows(rows)[k].instance_id = id)
                    /\ \A k \in DOMAIN notified :
                          ~(notified[k].run = r /\ notified[k].instance = id)
                    /\ id \notin runLog[r].raised \cup runLog[r].swallowed

----------------------------------------------------------------------------
(* Claims about the records of a transition of the unregistered tag *)

\* C31: in a cycle of the unregistered tagging job that raises nothing for an
\* instance, a torrent that gets the tag and a torrent that loses it each get
\* exactly one ActionLog row and exactly one notification; a torrent whose tag
\* already agrees with its tracker status gets no row and no notification.
C31_OneRowOneNotification ==
    \A n \in DOMAIN runLog :
        LET e == runLog[n]
            insts == JobInstances(e.job)
        IN e.job = "tag_unregistered" =>
            \A i \in DOMAIN insts :
                LET id == insts[i].id
                IN id \notin e.raised =>
                   \A t \in DOMAIN e.before[id] :
                      LET torrent == e.before[id][t]
                          transition == UnregisteredByStatus(torrent)
                                            # HasTag(torrent, Unregistered)
                          expected == IF transition THEN 1 ELSE 0
                      IN /\ Len(RowsOf(committed, n, id, torrent.hash)) = expected
                         /\ Len(NotificationsOf(n, id, torrent.hash)) = expected

----------------------------------------------------------------------------
(* Claims about the fallback of the pagination *)

\* C32: when a page request raised, whether the first or one after pages that
\* were fetched, get_all_torrents returns what the one unpaged listing call
\* returned, the backend's torrents each once and in order, with nothing of the
\* fetched pages added; when the unpaged call raised too it returns the empty
\* list.
C32_FallbackIsTheUnpagedListing ==
    \A o \in pgOut : o.fellBack =>
        /\ ~o.fallbackRaised => o.result = pgBackend
        /\ o.fallbackRaised => o.result = <<>>

\* the third page request raised after two full pages, and the unpaged call
\* returned the whole list
C32_Witness ==
    \E o \in pgOut :
        /\ o.fellBack /\ ~o.fallbackRaised
        /\ o.requests = 3
        /\ Len(pgBackend) > 2 * PageLimit
        /\ o.result = pgBackend

----------------------------------------------------------------------------
(* Claims about the translation the hard-link tagging decides with *)

\* some file of the torrent, translated by _map_qbt_path_to_local, is there
\* with more than one name
HardLinkedByTranslation(inst, torrent) ==
    \E k \in DOMAIN torrent.files :
        LET local == MapQbtPathToLocal(links, inst,
                                       Some(Join2(torrent.save_path, torrent.files[k]))).value
        IN /\ local # None
           /\ Stat(files, links, Val(local), FALSE).error = ""
           /\ Cardinality({q \in DOMAIN files :
                  /\ files[q].st_dev = Stat(files, links, Val(local), FALSE).st_dev
                  /\ files[q].st_ino = Stat(files, links, Val(local), FALSE).st_ino}) > 1

\* C33: in a cycle of the hard-link tagging that raises nothing, a torrent that
\* bears the tag noHL loses it exactly if one of its files, translated as
\* _map_qbt_path_to_local translates it, has more than one name, and a torrent
\* that gets the tag has no such file: a file in /rr, beside the remote root
\* /r, decides nothing.
C33_SameTranslation ==
    \A n \in DOMAIN runLog :
        LET e == runLog[n]
            insts == LoopInstances(e.job)
        IN e.job = "tag_nohardlinks" =>
            \A i \in DOMAIN insts :
                LET id == insts[i].id
                IN id \notin e.raised \cup e.swallowed =>
                   \A t \in DOMAIN e.before[id] :
                      LET torrent == e.before[id][t]
                          removed == \E k \in DOMAIN PlainCalls(n, id, torrent.hash) :
                                        PlainCalls(n, id, torrent.hash)[k].op = "remove_tags"
                      IN /\ HasTag(torrent, NoHL) =>
                              (removed <=> HardLinkedByTranslation(insts[i], torrent))
                         /\ TaggedNoHL(n, id, torrent.hash) =>
                              ~HardLinkedByTranslation(insts[i], torrent)
                         /\ (~HasTag(torrent, NoHL)
                               /\ CompletedOverAnHourAgo(TagClock, torrent)
                               /\ e.tz.before = 0 /\ e.tz.after = 0
                               /\ ~HardLinkedByTranslation(insts[i], torrent))
                              => TaggedNoHL(n, id, torrent.hash)

----------------------------------------------------------------------------
(* Claims about the orphan columns of an instance *)

\* the instance of this id
InstanceOf(id) == CHOOSE i \in Range(instances) : i.id = id

\* C34: every root the orphan job scans is mapped by an instance whose own
\* orphaned_scan_enabled is set, every finding is attributed to such an
\* instance, and the age threshold of the scan of a root is the
\* orphaned_min_age_days of the instance the findings are attributed to.
C34_PerInstanceOrphanSettings ==
    \A o \in oLog :
        /\ \A g \in DOMAIN o.scanned :
              /\ \E i \in Range(instances) :
                    /\ i.orphaned_scan_enabled
                    /\ ~NotSet(i.qbt_download_dir) /\ ~NotSet(i.mapped_download_dir)
                    /\ Canon(links, Val(i.mapped_download_dir)) = o.scanned[g].mapped_root
              /\ o.scanned[g].orphaned # <<>> =>
                    InstanceOf(o.scanned[g].owner).orphaned_scan_enabled
        /\ \A k \in DOMAIN sent :
              sent[k].min_age_days = InstanceOf(sent[k].owner).orphaned_min_age_days

----------------------------------------------------------------------------
(* Claims about a cycle in which an instance cannot be listed *)

\* C35: a file that a torrent of an instance with both roots set claims is not
\* logged as orphaned by the job, also when the client of that instance is not
\* reached or its torrent listing raises in the cycle.
C35_ClaimedNeverOrphaned ==
    \A log \in oLog :
        (\A f \in log.faults : f.kind \in {"connect", "page", "list"}) =>
            \A ib \in DOMAIN instances :
                LET B == instances[ib]
                IN (~NotSet(B.qbt_download_dir) /\ ~NotSet(B.mapped_download_dir)) =>
                      ClaimedBy(B) \cap LoggedOrphans = {}

----------------------------------------------------------------------------
(* Claims about a first matching rule that changes nothing *)

\* the calls and the rows, pending or committed, of a run for a torrent
TouchedBy(run, id, hash) ==
    Len(CallsOf(run, id, hash)) + Len(RowsOf(session, run, id, hash))
        + Len(RowsOf(committed, run, id, hash))

\* a rule after the first matching one matches too and would change a limit
LaterRuleWouldApply(rules, torrent) ==
    \E j \in DOMAIN rules :
        /\ j > FirstMatching(rules, torrent)
        /\ RuleMatches(rules[j], torrent)
        /\ ~Conforms(rules[j], torrent)

\* C37: a torrent that conforms to its first matching rule, which a rule that
\* sets no limit always is, gets no remote call and no ActionLog row in the
\* cycle, whatever rules follow in the order.
C37_ConformingFirstMatchEnds ==
    \A r \in 1..runs : \A n \in DOMAIN instances :
        LET inst == instances[n]
            before == runLog[r].before[inst.id]
        IN \A t \in DOMAIN before :
              LET m == FirstMatching(inst.rules, before[t])
              IN (m # 0 /\ Conforms(inst.rules[m], before[t])) =>
                    TouchedBy(r, inst.id, before[t].hash) = 0

\* a cycle that raised nothing over a torrent whose first matching rule sets no
\* limit and whose second rule matches and would change its limits
C37_Witness ==
    \E r \in 1..runs : \E n \in DOMAIN instances :
      \E t \in DOMAIN runLog[r].before[instances[n].id] :
        LET inst == instances[n]
            torrent == runLog[r].before[inst.id][t]
            m == FirstMatching(inst.rules, torrent)
        IN /\ runLog[r].raised = {}
           /\ m # 0
           /\ ~HasLimit(inst.rules[m])
           /\ LaterRuleWouldApply(inst.rules, torrent)
           /\ TouchedBy(r, inst.id, torrent.hash) = 0

----------------------------------------------------------------------------
(* Claims about the rows of one run of the orphan job *)

\* the rows "Orphaned file detected" of the run, committed or pending, in order
OrphanRowsOfRun ==
    SelectSeq(committed \o session,
              LAMBDA r : "action" \in DOMAIN r /\ r.action = <<"Orphaned file detected">>)

\* C38: in one run of detect_orphaned_files_job no path is the details of two
\* 'Orphaned file detected' rows, whatever the local roots of the instances,
\* one root inside another included.
C38_OneRowPerPath ==
    \A i, j \in DOMAIN OrphanRowsOfRun :
        OrphanRowsOfRun[i].details = OrphanRowsOfRun[j].details => i = j


----------------------------------------------------------------------------
(* Claims about the parsing of the client log *)

\* the committed ActionLog rows that one line of an instance's log produced
RowsOfLine(id, log_id) ==
    {k \in DOMAIN committed : /\ "log_id" \in DOMAIN committed[k]
                              /\ committed[k].instance_id = id
                              /\ committed[k].log_id = log_id}

----------------------------------------------------------------------------
(* Claims about the number of page requests *)

\* what page number k of a list of n torrents holds
PageLength(n, k) == Min(PageLimit, Max(0, n - (k - 1) * PageLimit))

\* C40: for a backend that holds N torrents and honours limit and offset,
\* get_all_torrents makes at most floor(N / 1000) + 1 page requests; when none
\* raised, the last page it requested is the first that is empty or shorter
\* than 1000, every page before it being full.
C40_StopsAtFirstShortPage ==
    \A o \in pgOut :
        /\ o.requests <= Len(pgBackend) \div PageLimit + 1
        /\ ~o.fellBack =>
              /\ PageLength(Len(pgBackend), o.requests) < PageLimit
              /\ \A k \in 1..(o.requests - 1) : PageLength(Len(pgBackend), k) = PageLimit

\* two full pages and an empty third one, the last request; and a list of
\* 2400, whose short third page is the last request too
C40_Witness ==
    \E o \in pgOut :
        /\ ~o.fellBack
        /\ Len(pgBackend) \in {2 * PageLimit, 2 * PageLimit + 400}
        /\ o.requests = 3


----------------------------------------------------------------------------
(* Claims about repeated cycles *)

\* the last cycle issued no remote call and added no row
LastCycleQuiet == runs > 0 /\ runLog[runs].calls = 0 /\ runLog[runs].rows = 0

\* C36: with the filesystem and the tracker statuses fixed and the remote side
\* changed by the jobs' own calls only, the cycles of rule application,
\* hard-link tagging, unregistered tagging and cross-seed pause reach a cycle
\* that issues no remote call and adds no ActionLog row, and every cycle after
\* it is as quiet.
C36_Quiescence == <>[]LastCycleQuiet

\* three cycles that issued calls, the third because the hour of grace ended
\* during the second, then two quiet ones
C36_Witness ==
    /\ runs = 5
    /\ \A r \in 1..3 : runLog[r].calls > 0 /\ runLog[r].rows > 0
    /\ \A r \in 4..5 : runLog[r].calls = 0 /\ runLog[r].rows = 0

====
